---- MODULE Spec2Model ----
(***************************************************************************)
(* Kitty graphics subsystem of ghostty-web: the sequence parser            *)
(* (KittyParser), the orchestrator (GraphicsManager), the image store      *)
(* (GraphicsStorage) and the Terminal.write entry point.                   *)
(*                                                                         *)
(* Text is a sequence of characters; a character is a TLA+ string ("x",    *)
(* ";", ...), the escape character is the token ESC.  Offsets into text    *)
(* are the 0-based offsets of the TypeScript code.                         *)
(***************************************************************************)
EXTENDS Integers, Sequences, FiniteSets, TLC

\* ------------------------------------------------------------------------
\* Characters and string primitives (JavaScript String methods)
\* ------------------------------------------------------------------------

ESC == "ESC"

APC_START == <<ESC, "_", "G">>

ST == <<ESC, "\\">>

TMUX_PASSTHROUGH_START == <<ESC, "P", "t", "m", "u", "x", ";", ESC>>

\* Number.parseInt of a string without a leading digit
NaN == -999999

None == <<>>

Some(v) == <<v>>

IsSome(o) == o # <<>>

Get(o) == o[1]

OrElse(o, d) == IF o = <<>> THEN d ELSE o[1]

MinOf(S) == CHOOSE m \in S : \A n \in S : m <= n

\* s.substring(a, b)
Substring(s, a, b) == SubSeq(s, a + 1, b)

\* s.substring(a)
SubstringFrom(s, a) == SubSeq(s, a + 1, Len(s))

\* s.indexOf(pat, from): -1 when absent
IndexOf(s, pat, from) ==
    LET hits == {i \in from..(Len(s) - Len(pat)) : SubSeq(s, i + 1, i + Len(pat)) = pat}
    IN  IF hits = {} THEN -1 ELSE MinOf(hits)

\* s.includes(pat)
Includes(s, pat) == IndexOf(s, pat, 0) # -1

\* s.split(sep) for a one-character separator
RECURSIVE Split(_, _)
Split(s, sep) ==
    LET i == IndexOf(s, <<sep>>, 0)
    IN  IF i = -1 THEN <<s>>
        ELSE <<Substring(s, 0, i)>> \o Split(SubstringFrom(s, i + 1), sep)

RECURSIVE Concat(_)
Concat(ss) == IF ss = <<>> THEN <<>> ELSE Head(ss) \o Concat(Tail(ss))

\* ------------------------------------------------------------------------
\* tmux DCS passthrough unwrapping
\* ------------------------------------------------------------------------

\* The search loop for the outer terminator: the first ESC \ at or after
\* innerStart whose ESC is not preceded by another ESC; -1 when none.
RECURSIVE FindOuterTerminator(_, _, _)
FindOuterTerminator(data, innerStart, i) ==
    IF i >= Len(data) - 1 THEN -1
    ELSE IF data[i + 1] = ESC /\ data[i + 2] = "\\"
         THEN IF i > innerStart /\ data[i] = ESC
              THEN FindOuterTerminator(data, innerStart, i + 2)
              ELSE i
         ELSE FindOuterTerminator(data, innerStart, i + 1)

\* The inner content taken as it is
KeepDoubled(s) == s

\* inner.replace(/\x1b\x1b/g, ESC)
RECURSIVE UnescapeDoubled(_)
UnescapeDoubled(s) ==
    IF s = <<>> THEN <<>>
    ELSE IF Len(s) >= 2 /\ s[1] = ESC /\ s[2] = ESC
         THEN <<ESC>> \o UnescapeDoubled(SubSeq(s, 3, Len(s)))
         ELSE <<s[1]>> \o UnescapeDoubled(Tail(s))

RECURSIVE UnwrapFrom(_, _)
UnwrapFrom(data, pos) ==
    IF pos >= Len(data) THEN <<>>
    ELSE LET startIdx == IndexOf(data, TMUX_PASSTHROUGH_START, pos)
         IN  IF startIdx = -1 THEN SubstringFrom(data, pos)
             ELSE LET innerStart == startIdx + Len(TMUX_PASSTHROUGH_START)
                      endIdx == FindOuterTerminator(data, innerStart, innerStart)
                  IN  IF endIdx = -1
                      THEN Substring(data, pos, startIdx) \o SubstringFrom(data, startIdx)
                      ELSE Substring(data, pos, startIdx)
                           \o UnescapeDoubled(Substring(data, innerStart, endIdx))
                           \o UnwrapFrom(data, endIdx + 2)

unwrapTmuxPassthrough(data) == UnwrapFrom(data, 0)

\* ------------------------------------------------------------------------
\* Control data and commands
\* ------------------------------------------------------------------------

Digits == {"0", "1", "2", "3", "4", "5", "6", "7", "8", "9"}

DigitVal(c) ==
    CASE c = "0" -> 0 [] c = "1" -> 1 [] c = "2" -> 2 [] c = "3" -> 3 [] c = "4" -> 4
      [] c = "5" -> 5 [] c = "6" -> 6 [] c = "7" -> 7 [] c = "8" -> 8 [] c = "9" -> 9

RECURSIVE LeadingDigits(_)
LeadingDigits(s) ==
    IF s = <<>> \/ Head(s) \notin Digits THEN <<>>
    ELSE <<Head(s)>> \o LeadingDigits(Tail(s))

RECURSIVE DecVal(_)
DecVal(ds) ==
    IF ds = <<>> THEN 0 ELSE 10 * DecVal(SubSeq(ds, 1, Len(ds) - 1)) + DigitVal(ds[Len(ds)])

RECURSIVE SkipSpaces(_)
SkipSpaces(s) == IF s # <<>> /\ Head(s) = " " THEN SkipSpaces(Tail(s)) ELSE s

\* Number.parseInt(v, 10)
ParseInt(v) ==
    LET t == SkipSpaces(v)
        signed == t # <<>> /\ Head(t) \in {"-", "+"}
        body == IF signed THEN Tail(t) ELSE t
        ds == LeadingDigits(body)
    IN  IF ds = <<>> THEN NaN
        ELSE IF signed /\ Head(t) = "-" THEN 0 - DecVal(ds) ELSE DecVal(ds)

\* The pairs of a control string folded into a key -> value map
RECURSIVE ParamsOf(_)
ParamsOf(pairs) ==
    IF pairs = <<>> THEN <<>>
    ELSE LET before == ParamsOf(SubSeq(pairs, 1, Len(pairs) - 1))
             pair == pairs[Len(pairs)]
             eqIndex == IndexOf(pair, <<"=">>, 0)
         IN  IF eqIndex > 0
             THEN LET key == Substring(pair, 0, eqIndex)
                      value == SubstringFrom(pair, eqIndex + 1)
                  IN  [k \in (DOMAIN before) \cup {key} |->
                          IF k = key THEN value ELSE before[k]]
             ELSE before

parseControlData(controlStr) == ParamsOf(Split(controlStr, ","))

\* params.get(key), undefined as None
ParamGet(params, key) == IF <<key>> \in DOMAIN params THEN Some(params[<<key>>]) ELSE None

\* A getNum that takes a value of 0 for an absent key
getNumTruthy(params, key) ==
    LET v == ParamGet(params, key)
    IN  IF IsSome(v) /\ ParseInt(Get(v)) # 0 THEN Some(ParseInt(Get(v))) ELSE None

\* getNum inside paramsToCommand: parseInt of the value, undefined as None
getNum(params, key) ==
    LET v == ParamGet(params, key) IN IF IsSome(v) THEN Some(ParseInt(Get(v))) ELSE None

\* A string-valued field that is set only when the value is truthy (non-empty)
getStr(params, key) ==
    LET v == ParamGet(params, key) IN IF IsSome(v) /\ Get(v) # <<>> THEN v ELSE None

paramsToCommand(params, payload) ==
    [ action         |-> LET a == ParamGet(params, "a")
                         IN  IF IsSome(a) /\ Get(a) # <<>> THEN Get(a) ELSE <<"T">>,
      payload        |-> IF payload = <<>> THEN None ELSE Some(payload),
      imageId        |-> getNum(params, "i"),
      imageNumber    |-> getNum(params, "I"),
      placementId    |-> getNum(params, "p"),
      format         |-> getNum(params, "f"),
      transmission   |-> getStr(params, "t"),
      compression    |-> getStr(params, "o"),
      more           |-> LET m == ParamGet(params, "m")
                         IN  IF IsSome(m) THEN Some(Get(m) = <<"1">>) ELSE None,
      width          |-> getNum(params, "s"),
      height         |-> getNum(params, "v"),
      displayWidth   |-> getNum(params, "c"),
      displayHeight  |-> getNum(params, "r"),
      cellX          |-> getNum(params, "X"),
      cellY          |-> getNum(params, "Y"),
      offsetX        |-> getNum(params, "x"),
      offsetY        |-> getNum(params, "y"),
      zIndex         |-> getNum(params, "z"),
      cursorMovement |-> getNum(params, "C"),
      quiet          |-> getNum(params, "q"),
      deleteTarget   |-> getStr(params, "d") ]

\* ------------------------------------------------------------------------
\* KittyParser
\* ------------------------------------------------------------------------

\* A parse that takes the whole content for control data
parseWithoutPayload(content, startIndex, endIndex) ==
    [ command    |-> paramsToCommand(parseControlData(content), <<>>),
      startIndex |-> startIndex,
      endIndex   |-> endIndex ]

parseSequence(content, startIndex, endIndex) ==
    LET semicolonIdx == IndexOf(content, <<";">>, 0)
        controlStr == IF semicolonIdx = -1 THEN content ELSE Substring(content, 0, semicolonIdx)
        payload == IF semicolonIdx = -1 THEN <<>> ELSE SubstringFrom(content, semicolonIdx + 1)
    IN  [ command    |-> paramsToCommand(parseControlData(controlStr), payload),
          startIndex |-> startIndex,
          endIndex   |-> endIndex ]

\* The scanning loop of extract from offset pos: the literal text, the
\* commands and the partial frame left pending.
RECURSIVE ExtractLoop(_, _)
ExtractLoop(fullData, pos) ==
    IF pos >= Len(fullData)
    THEN [cleanedData |-> <<>>, commands |-> <<>>, pendingData |-> <<>>]
    ELSE LET startIdx == IndexOf(fullData, APC_START, pos)
         IN  IF startIdx = -1
             THEN [cleanedData |-> SubstringFrom(fullData, pos), commands |-> <<>>,
                   pendingData |-> <<>>]
             ELSE LET endIdx == IndexOf(fullData, ST, startIdx)
                  IN  IF endIdx = -1
                      THEN [cleanedData |-> Substring(fullData, pos, startIdx),
                            commands |-> <<>>,
                            pendingData |-> SubstringFrom(fullData, startIdx)]
                      ELSE LET content == Substring(fullData, startIdx + Len(APC_START), endIdx)
                               parsed == parseSequence(content, startIdx, endIdx + Len(ST))
                               rest == ExtractLoop(fullData, endIdx + Len(ST))
                           IN  [cleanedData |-> Substring(fullData, pos, startIdx)
                                                \o rest.cleanedData,
                                commands |-> <<parsed>> \o rest.commands,
                                pendingData |-> rest.pendingData]

\* Whether extract runs the unwrapping pass over the working text
NeedsUnwrap(fullData) == Includes(fullData, TMUX_PASSTHROUGH_START)

\* An extract that forgets the buffer
extractWithoutPending(pending, data) ==
    [ cleanedData |-> ExtractLoop(data, 0).cleanedData,
      commands    |-> ExtractLoop(data, 0).commands,
      hasGraphics |-> Len(ExtractLoop(data, 0).commands) > 0,
      fullData    |-> data,
      pendingData |-> ExtractLoop(data, 0).pendingData ]

\* An extract that buffers the whole working text when a frame is left open
extractKeepingWhole(pending, data) ==
    LET joined == pending \o data
        fullData == IF NeedsUnwrap(joined) THEN unwrapTmuxPassthrough(joined) ELSE joined
        r == ExtractLoop(fullData, 0)
    IN  [ cleanedData |-> r.cleanedData,
          commands    |-> r.commands,
          hasGraphics |-> Len(r.commands) > 0,
          fullData    |-> fullData,
          pendingData |-> IF r.pendingData = <<>> THEN <<>> ELSE fullData ]

\* KittyParser.extract(data) with the parser's buffer holding `pending`: the
\* ExtractResult and, as pendingData, the buffer the call leaves behind.
extract(pending, data) ==
    LET joined == pending \o data
        fullData == IF NeedsUnwrap(joined) THEN unwrapTmuxPassthrough(joined) ELSE joined
        r == ExtractLoop(fullData, 0)
    IN  [ cleanedData |-> r.cleanedData,
          commands    |-> r.commands,
          hasGraphics |-> Len(r.commands) > 0,
          fullData    |-> fullData,
          pendingData |-> r.pendingData ]

hasGraphicsSequence(data) == Includes(data, APC_START) \/ Includes(data, TMUX_PASSTHROUGH_START)

\* KittyParser.hasPendingData() with the buffer holding `pending`
hasPendingData(pending) == Len(pending) > 0

\* ------------------------------------------------------------------------
\* Stateless cleanup passes (regular-expression replaces)
\* ------------------------------------------------------------------------

\* The character at 1-based position p, "" past either end
At(s, p) == IF p >= 1 /\ p <= Len(s) THEN s[p] ELSE ""

\* \s
Whitespace == {" ", "\t", "\n", "\r"}

\* Length of the run of digits starting at p
RECURSIVE DigitRun(_, _)
DigitRun(s, p) == IF At(s, p) \in Digits THEN 1 + DigitRun(s, p + 1) ELSE 0

\* Length of the run of [^\s] starting at p
RECURSIVE NonSpaceRun(_, _)
NonSpaceRun(s, p) ==
    IF p <= Len(s) /\ s[p] \notin Whitespace THEN 1 + NonSpaceRun(s, p + 1) ELSE 0

\* An ID pattern that takes any value up to the next ; for digits
MatchIAnyValue(s, p) ==
    IF At(s, p) = "i" /\ At(s, p + 1) = "=" /\ At(s, p + 2) \notin {";", ""}
    THEN 2 + Cardinality({n \in 1..(Len(s) - p - 1) :
                            \A k \in 1..n : At(s, p + 1 + k) # ";"})
    ELSE 0

\* i=\d+ at p: its length, 0 when it does not match
MatchI(s, p) ==
    IF At(s, p) = "i" /\ At(s, p + 1) = "=" /\ DigitRun(s, p + 2) > 0
    THEN 2 + DigitRun(s, p + 2) ELSE 0

\* ,p=\d+ at p
MatchP(s, p) ==
    IF At(s, p) = "," /\ At(s, p + 1) = "p" /\ At(s, p + 2) = "=" /\ DigitRun(s, p + 3) > 0
    THEN 3 + DigitRun(s, p + 3) ELSE 0

IsENOENT(s, p) ==
    /\ At(s, p) = "E" /\ At(s, p + 1) = "N" /\ At(s, p + 2) = "O" /\ At(s, p + 3) = "E"
    /\ At(s, p + 4) = "N" /\ At(s, p + 5) = "T" /\ At(s, p + 6) = ":"

\* (?:\x1b\\|\\)? at p
MatchTerm(s, p) ==
    IF At(s, p) = ESC /\ At(s, p + 1) = "\\" THEN 2
    ELSE IF At(s, p) = "\\" THEN 1 ELSE 0

\* ;(?:OK|ENOENT:[^\s]*)(?:\x1b\\|\\)? at p
MatchStatusTail(s, p) ==
    IF At(s, p) # ";" THEN 0
    ELSE IF At(s, p + 1) = "O" /\ At(s, p + 2) = "K" THEN 3 + MatchTerm(s, p + 3)
    ELSE IF IsENOENT(s, p + 1) THEN 8 + NonSpaceRun(s, p + 8)
    ELSE 0

\* withG: (?:\x1b_|_)?G(?:i=\d+)?(?:,p=\d+)?;(?:OK|ENOENT:[^\s]*)(?:\x1b\\|\\)?
MatchWithG(s, p) ==
    LET pre == IF At(s, p) = ESC /\ At(s, p + 1) = "_" /\ At(s, p + 2) = "G" THEN 3
               ELSE IF At(s, p) = "_" /\ At(s, p + 1) = "G" THEN 2
               ELSE IF At(s, p) = "G" THEN 1 ELSE 0
        li == MatchI(s, p + pre)
        lp == MatchP(s, p + pre + li)
        tail == MatchStatusTail(s, p + pre + li + lp)
    IN  IF pre = 0 \/ tail = 0 THEN 0 ELSE pre + li + lp + tail

\* bareResponse: i=\d+(?:,p=\d+)?;(?:OK|ENOENT:[^\s]*)(?:\x1b\\|\\)?
MatchBare(s, p) ==
    LET li == MatchI(s, p)
        lp == MatchP(s, p + li)
        tail == MatchStatusTail(s, p + li + lp)
    IN  IF li = 0 \/ tail = 0 THEN 0 ELSE li + lp + tail

\* framedResponse: \x1b\[\d+;\d+H(i=\d+(?:,p=\d+)?;(?:OK|ENOENT:[^\s]*))(\x1b\[K)
\* The match keeps its trailing ESC [ K: the length returned is that of the
\* part the replace removes.
MatchFramed(s, p) ==
    LET d1 == DigitRun(s, p + 2)
        q == p + 2 + d1
        d2 == DigitRun(s, q + 1)
        h == q + 1 + d2
        li == MatchI(s, h + 1)
        lp == MatchP(s, h + 1 + li)
        st == h + 1 + li + lp
        IsEraseAt(r) == At(s, r) = ESC /\ At(s, r + 1) = "[" /\ At(s, r + 2) = "K"
        run == NonSpaceRun(s, st + 8)
        ends == {k \in 0..run : IsEraseAt(st + 8 + k)}
    IN  IF ~(/\ At(s, p) = ESC /\ At(s, p + 1) = "[" /\ d1 > 0 /\ At(s, q) = ";" /\ d2 > 0
             /\ At(s, h) = "H" /\ li > 0 /\ At(s, st) = ";")
        THEN 0
        ELSE IF At(s, st + 1) = "O" /\ At(s, st + 2) = "K"
             THEN IF IsEraseAt(st + 3) THEN st + 3 - p ELSE 0
        ELSE IF IsENOENT(s, st + 1)
             THEN IF ends = {} THEN 0
                  ELSE st + 8 + (CHOOSE k \in ends : \A j \in ends : j <= k) - p
        ELSE 0

MatchLen(kind, s, p) ==
    CASE kind = "withG" -> MatchWithG(s, p)
      [] kind = "framed" -> MatchFramed(s, p)
      [] kind = "bare" -> MatchBare(s, p)

\* s.replace(regex, ...) with the g flag, scanning from position p
RECURSIVE ReplaceAll(_, _, _)
ReplaceAll(kind, s, p) ==
    IF p > Len(s) THEN <<>>
    ELSE LET n == MatchLen(kind, s, p)
         IN  IF n > 0 THEN ReplaceAll(kind, s, p + n)
             ELSE <<s[p]>> \o ReplaceAll(kind, s, p + 1)

stripEchoedResponses(data) ==
    ReplaceAll("bare", ReplaceAll("framed", ReplaceAll("withG", data, 1), 1), 1)

\* The surrogate pair of U+10EEEE and the combining marks that follow it
PlaceholderHigh == "uDBFB"

PlaceholderLow == "uDEEE"

CombiningMarks == {"u0305", "u030D", "u0483", "u05C7"}

RECURSIVE MarkRun(_, _)
MarkRun(s, p) == IF At(s, p) \in CombiningMarks THEN 1 + MarkRun(s, p + 1) ELSE 0

RECURSIVE stripUnicodePlaceholders(_)
stripUnicodePlaceholders(data) ==
    IF data = <<>> THEN <<>>
    ELSE IF At(data, 1) = PlaceholderHigh /\ At(data, 2) = PlaceholderLow
         THEN stripUnicodePlaceholders(SubstringFrom(data, 2 + MarkRun(data, 3)))
         ELSE <<data[1]>> \o stripUnicodePlaceholders(Tail(data))

\* Terminal.handleOSCColorQueries: the text with the OSC 10/11/12 colour
\* queries ESC ] Ps ; ? (BEL | ESC \) removed
MatchOscQuery(s, p) ==
    IF /\ At(s, p) = ESC /\ At(s, p + 1) = "]" /\ At(s, p + 2) = "1"
       /\ At(s, p + 3) \in {"0", "1", "2"} /\ At(s, p + 4) = ";" /\ At(s, p + 5) = "?"
    THEN IF At(s, p + 6) = "BEL" THEN 7
         ELSE IF At(s, p + 6) = ESC /\ At(s, p + 7) = "\\" THEN 8 ELSE 0
    ELSE 0

RECURSIVE RemoveOscQueries(_, _)
RemoveOscQueries(s, p) ==
    IF p > Len(s) THEN <<>>
    ELSE LET n == MatchOscQuery(s, p)
         IN  IF n > 0 THEN RemoveOscQueries(s, p + n)
             ELSE <<s[p]>> \o RemoveOscQueries(s, p + 1)

handleOSCColorQueries(data) == RemoveOscQueries(data, 1)

\* ------------------------------------------------------------------------
\* Protocol codec
\* ------------------------------------------------------------------------

BASE64_CHARS ==
    << "A", "B", "C", "D", "E", "F", "G", "H", "I", "J", "K", "L", "M", "N", "O", "P",
       "Q", "R", "S", "T", "U", "V", "W", "X", "Y", "Z", "a", "b", "c", "d", "e", "f",
       "g", "h", "i", "j", "k", "l", "m", "n", "o", "p", "q", "r", "s", "t", "u", "v",
       "w", "x", "y", "z", "0", "1", "2", "3", "4", "5", "6", "7", "8", "9", "+", "/" >>

Base64Alphabet == {BASE64_CHARS[i] : i \in 1..Len(BASE64_CHARS)}

\* BASE64_LOOKUP[c]
Base64Lookup(c) ==
    IF c \in Base64Alphabet
    THEN (CHOOSE i \in 1..Len(BASE64_CHARS) : BASE64_CHARS[i] = c) - 1
    ELSE 0

\* Characters the first pass counts as valid (the URL-safe variants included)
IsBase64Char(c) == c \in Base64Alphabet \cup {"-", "_"}

\* - -> +, _ -> /
NormalizeUrlSafe(c) == IF c = "-" THEN "+" ELSE IF c = "_" THEN "/" ELSE c

CountIf(s, Test(_)) == Cardinality({i \in 1..Len(s) : Test(s[i])})

\* The decoding loop: position i, bits collected so far, bytes still to write.
\* `bits` is a 32-bit integer in the code; a byte is cut from its bits below
\* bit 14 only (collected < 8 after each cut), so the low 16 bits are kept.
RECURSIVE Base64Loop(_, _, _, _, _)
Base64Loop(s, i, bits, collected, room) ==
    IF i > Len(s) \/ room = 0 THEN <<>>
    ELSE LET c == NormalizeUrlSafe(s[i])
         IN  IF c \notin Base64Alphabet THEN Base64Loop(s, i + 1, bits, collected, room)
             ELSE LET b == (bits * 64 + Base64Lookup(c)) % 65536
                      n == collected + 6
                  IN  IF n >= 8
                      THEN <<(b \div (2 ^ (n - 8))) % 256>>
                           \o Base64Loop(s, i + 1, b, n - 8, room - 1)
                      ELSE Base64Loop(s, i + 1, b, n, room)

\* outputLen: the size base64ToBytes computes for its output array
Base64OutputLen(base64) ==
    LET validLen == CountIf(base64, IsBase64Char)
        padding == CountIf(base64, LAMBDA c : c = "=")
    IN  (((validLen + padding) * 3) \div 4) - padding

\* new Uint8Array(outputLen) throws a RangeError for a negative length
base64Throws(base64) == Base64OutputLen(base64) < 0

\* The bytes base64ToBytes returns when it does not throw
base64ToBytes(base64) ==
    Base64Loop(base64, 1, 0, 0,
               IF base64Throws(base64) THEN 0 ELSE Base64OutputLen(base64))

\* An encoder whose third character leaves out the top bits of the third byte
Base64GroupDroppingBits(bytes, i) ==
    LET len == Len(bytes)
        b1 == bytes[i]
        b2 == IF i + 1 <= len THEN bytes[i + 1] ELSE 0
        b3 == IF i + 2 <= len THEN bytes[i + 2] ELSE 0
    IN  << BASE64_CHARS[(b1 \div 4) + 1],
           BASE64_CHARS[((b1 % 4) * 16 + (b2 \div 16)) + 1],
           IF i + 1 <= len THEN BASE64_CHARS[((b2 % 16) * 4) + 1] ELSE "=",
           IF i + 2 <= len THEN BASE64_CHARS[(b3 % 64) + 1] ELSE "=" >>

\* The four characters bytesToBase64 appends for the bytes from position i
\* on (1-based), with = for the bytes the input does not have
Base64Group(bytes, i) ==
    LET len == Len(bytes)
        b1 == bytes[i]
        b2 == IF i + 1 <= len THEN bytes[i + 1] ELSE 0
        b3 == IF i + 2 <= len THEN bytes[i + 2] ELSE 0
    IN  << BASE64_CHARS[(b1 \div 4) + 1],
           BASE64_CHARS[((b1 % 4) * 16 + (b2 \div 16)) + 1],
           IF i + 1 <= len THEN BASE64_CHARS[((b2 % 16) * 4 + (b3 \div 64)) + 1] ELSE "=",
           IF i + 2 <= len THEN BASE64_CHARS[(b3 % 64) + 1] ELSE "=" >>

RECURSIVE Base64EncodeFrom(_, _)
Base64EncodeFrom(bytes, i) ==
    IF i > Len(bytes) THEN <<>>
    ELSE Base64Group(bytes, i) \o Base64EncodeFrom(bytes, i + 3)

\* bytesToBase64
bytesToBase64(bytes) == Base64EncodeFrom(bytes, 1)

\* A combine that stops at the first empty chunk
RECURSIVE ConcatDecodedUntilEmpty(_)
ConcatDecodedUntilEmpty(chunks) ==
    IF chunks = <<>> \/ Head(chunks) = <<>> THEN <<>>
    ELSE base64ToBytes(Head(chunks)) \o ConcatDecodedUntilEmpty(Tail(chunks))

RECURSIVE ConcatDecoded(_)
ConcatDecoded(chunks) ==
    IF chunks = <<>> THEN <<>>
    ELSE (IF Head(chunks) = <<>> THEN <<>> ELSE base64ToBytes(Head(chunks)))
         \o ConcatDecoded(Tail(chunks))

\* Whether combineChunksToBytes throws: one of the chunks it decodes does
combineChunksThrows(chunks) ==
    IF Len(chunks) = 0 THEN FALSE
    ELSE IF Len(chunks) = 1 THEN base64Throws(chunks[1])
    ELSE \E i \in 1..Len(chunks) : chunks[i] # <<>> /\ base64Throws(chunks[i])

\* ImageDecoder.combineChunksToBytes
combineChunksToBytes(chunks) ==
    IF Len(chunks) = 0 THEN <<>>
    ELSE IF Len(chunks) = 1 THEN base64ToBytes(chunks[1])
    ELSE ConcatDecoded(chunks)


\* ------------------------------------------------------------------------
\* GraphicsStorage.  The store is a record st:
\*   images          image ID -> StoredImage
\*   accessOrder     image IDs, least recently used first
\*   placements      the placements in the insertion order of the Map
\*   placementsByRow buffer row -> set of placement keys
\*   chunkBuffers    image ID -> ChunkBuffer
\*   chunkOrder      the keys of chunkBuffers in the insertion order of the Map
\*   memoryUsage     tracked total of bytes
\* A placement key `${imageId}:${placementId}` is the pair <<imageId, placementId>>.
\* ------------------------------------------------------------------------

\* options.maxImages, options.maxCacheMemory and options.maxPlacements
MaxImages == 2

MaxCacheMemory == 24

MaxPlacements == 2

EmptyMap == [k \in {} |-> 0]

MapPut(f, k, v) == [i \in (DOMAIN f) \cup {k} |-> IF i = k THEN v ELSE f[i]]

MapRemove(f, k) == [i \in (DOMAIN f) \ {k} |-> f[i]]

EmptyStorage ==
    [ images |-> EmptyMap, accessOrder |-> <<>>, placements |-> <<>>,
      placementsByRow |-> EmptyMap, chunkBuffers |-> EmptyMap, chunkOrder |-> <<>>,
      memoryUsage |-> 0 ]

hasImage(st, id) == id \in DOMAIN st.images

hasChunkBuffer(st, imageId) == imageId \in DOMAIN st.chunkBuffers

PlacementKeys(st) == {st.placements[i].id : i \in 1..Len(st.placements)}

getPlacement(st, key) == CHOOSE p \in {st.placements[i] : i \in 1..Len(st.placements)} : p.id = key

\* A removePlacement that leaves the emptied row set in the row index
removePlacementKeepingRow(st, key) ==
    IF key \notin PlacementKeys(st) THEN st
    ELSE LET row == getPlacement(st, key).bufferRow
             byRow == IF row \in DOMAIN st.placementsByRow
                      THEN MapPut(st.placementsByRow, row, st.placementsByRow[row] \ {key})
                      ELSE st.placementsByRow
         IN  [st EXCEPT !.placementsByRow = byRow,
                        !.placements = SelectSeq(st.placements, LAMBDA p : p.id # key)]

removePlacement(st, key) ==
    IF key \notin PlacementKeys(st) THEN st
    ELSE LET row == getPlacement(st, key).bufferRow
             byRow == IF row \in DOMAIN st.placementsByRow
                      THEN LET rowSet == st.placementsByRow[row] \ {key}
                           IN  IF rowSet = {} THEN MapRemove(st.placementsByRow, row)
                               ELSE MapPut(st.placementsByRow, row, rowSet)
                      ELSE st.placementsByRow
         IN  [st EXCEPT !.placementsByRow = byRow,
                        !.placements = SelectSeq(st.placements, LAMBDA p : p.id # key)]

\* removePlacement applied to each key of a list in turn
RECURSIVE RemovePlacements(_, _)
RemovePlacements(st, keys) ==
    IF keys = <<>> THEN st ELSE RemovePlacements(removePlacement(st, Head(keys)), Tail(keys))

\* The keys of the placements, in Map order, that satisfy Test
KeysWhere(st, Test(_)) ==
    LET sel == SelectSeq(st.placements, Test) IN [i \in 1..Len(sel) |-> sel[i].id]

\* An image removed without the placements that use it
removeImageKeepingPlacements(st, id) ==
    IF id \notin DOMAIN st.images THEN st
    ELSE [st EXCEPT !.memoryUsage = st.memoryUsage - st.images[id].byteSize,
                    !.accessOrder = SelectSeq(st.accessOrder, LAMBDA x : x # id),
                    !.images = MapRemove(st.images, id)]

\* What removeImage returns: whether the image was there
removeImageReturns(st, id) == id \in DOMAIN st.images

\* removeImage: the store after the call
removeImage(st, id) ==
    IF id \notin DOMAIN st.images THEN st
    ELSE LET image == st.images[id]
             st1 == RemovePlacements(st, KeysWhere(st, LAMBDA p : p.imageId = id))
         IN  [st1 EXCEPT !.memoryUsage = st1.memoryUsage - image.byteSize,
                         !.accessOrder = SelectSeq(st1.accessOrder, LAMBDA x : x # id),
                         !.images = MapRemove(st1.images, id)]

\* The first loop of evictIfNeeded: the image-count limit
RECURSIVE EvictForCount(_)
EvictForCount(st) ==
    IF Cardinality(DOMAIN st.images) >= MaxImages /\ Len(st.accessOrder) > 0
    THEN EvictForCount(removeImage(st, st.accessOrder[1]))
    ELSE st

\* The second loop of evictIfNeeded: the memory limit
RECURSIVE EvictForMemory(_, _)
EvictForMemory(st, additionalBytes) ==
    IF st.memoryUsage + additionalBytes > MaxCacheMemory /\ Len(st.accessOrder) > 0
    THEN EvictForMemory(removeImage(st, st.accessOrder[1]), additionalBytes)
    ELSE st

\* Eviction that looks at the memory limit alone
evictForMemoryOnly(st, additionalBytes) == EvictForMemory(st, additionalBytes)

evictIfNeeded(st, additionalBytes) == EvictForMemory(EvictForCount(st), additionalBytes)

\* byteSize: data.length + (bitmap ? width * height * 4 : 0)
ImageByteSize(width, height, data, bitmap) ==
    Len(data) + (IF bitmap THEN width * height * 4 ELSE 0)

\* A store that charges the data bytes alone to the tracked total
storeImageCountingData(st, id, format, width, height, data, bitmap) ==
    LET st1 == evictIfNeeded(st, Len(data))
        st2 == IF id \in DOMAIN st1.images THEN removeImage(st1, id) ELSE st1
        image == [ id |-> id, format |-> format, width |-> width, height |-> height,
                   data |-> data, bitmap |-> bitmap,
                   byteSize |-> ImageByteSize(width, height, data, bitmap) ]
    IN  [st2 EXCEPT !.images = MapPut(st2.images, id, image),
                    !.accessOrder = Append(st2.accessOrder, id),
                    !.memoryUsage = st2.memoryUsage + Len(data)]

storeImage(st, id, format, width, height, data, bitmap) ==
    LET st1 == evictIfNeeded(st, Len(data))
        st2 == IF id \in DOMAIN st1.images THEN removeImage(st1, id) ELSE st1
        image == [ id |-> id, format |-> format, width |-> width, height |-> height,
                   data |-> data, bitmap |-> bitmap,
                   byteSize |-> ImageByteSize(width, height, data, bitmap) ]
    IN  [st2 EXCEPT !.images = MapPut(st2.images, id, image),
                    !.accessOrder = Append(st2.accessOrder, id),
                    !.memoryUsage = st2.memoryUsage + image.byteSize]

\* A lookup that leaves the access order alone
getImageWithoutTouch(st, id) == st

\* getImage: the store after the LRU touch
getImage(st, id) ==
    IF id \in DOMAIN st.images
    THEN [st EXCEPT !.accessOrder = Append(SelectSeq(st.accessOrder, LAMBDA x : x # id), id)]
    ELSE st

\* A setPlacement that evicts nothing
setPlacementUnbounded(st, placement) ==
    LET st1 == removePlacement(st, placement.id)
        row == placement.bufferRow
        rowSet == IF row \in DOMAIN st1.placementsByRow THEN st1.placementsByRow[row] ELSE {}
    IN  [st1 EXCEPT !.placements = Append(st1.placements, placement),
                    !.placementsByRow = MapPut(st1.placementsByRow, row, rowSet \cup {placement.id})]

setPlacement(st, placement) ==
    LET key == placement.id
        st1 == IF key \in PlacementKeys(st) THEN removePlacement(st, key) ELSE st
        st2 == IF Len(st1.placements) >= MaxPlacements /\ Len(st1.placements) > 0
               THEN removePlacement(st1, st1.placements[1].id)
               ELSE st1
        row == placement.bufferRow
        rowSet == IF row \in DOMAIN st2.placementsByRow THEN st2.placementsByRow[row] ELSE {}
    IN  [st2 EXCEPT !.placements = Append(st2.placements, placement),
                    !.placementsByRow = MapPut(st2.placementsByRow, row, rowSet \cup {key})]

\* The placements whose first row lies in the range
PlacementsStartingInRange(st, startRow, endRow) ==
    SelectSeq(st.placements, LAMBDA p : p.bufferRow >= startRow /\ p.bufferRow <= endRow)

\* getPlacementsInRange: the scan of the placements in Map order.  The keys
\* of a Map are distinct, so the `seen` set never rejects a placement.
getPlacementsInRange(st, startRow, endRow) ==
    SelectSeq(st.placements,
              LAMBDA p : /\ p.bufferRow + p.displayHeight - 1 >= startRow
                         /\ p.bufferRow <= endRow)

addChunk(st, imageId, chunk, format, width, height, compression) ==
    LET buffer == IF imageId \in DOMAIN st.chunkBuffers THEN st.chunkBuffers[imageId]
                  ELSE [ imageId |-> imageId, format |-> format, width |-> width,
                         height |-> height, compression |-> compression, chunks |-> <<>> ]
        updated == [buffer EXCEPT
                      !.chunks = Append(buffer.chunks, chunk),
                      !.width = IF IsSome(width) THEN width ELSE buffer.width,
                      !.height = IF IsSome(height) THEN height ELSE buffer.height,
                      !.compression = IF IsSome(compression) THEN compression
                                      ELSE buffer.compression]
    IN  [st EXCEPT !.chunkBuffers = MapPut(st.chunkBuffers, imageId, updated),
                   !.chunkOrder = IF imageId \in DOMAIN st.chunkBuffers THEN st.chunkOrder
                                  ELSE Append(st.chunkOrder, imageId)]

\* getAndClearChunks: the store after the call (the buffer is read before)
getAndClearChunks(st, imageId) ==
    [st EXCEPT !.chunkBuffers = MapRemove(st.chunkBuffers, imageId),
               !.chunkOrder = SelectSeq(st.chunkOrder, LAMBDA x : x # imageId)]

deleteAll(st) == EmptyStorage

RowKeys(st, row) ==
    IF row \in DOMAIN st.placementsByRow
    THEN KeysWhere(st, LAMBDA p : p.id \in st.placementsByRow[row])
    ELSE <<>>

deleteAtCursor(st, row, col) ==
    LET keys == RowKeys(st, row)
        hit == SelectSeq(keys, LAMBDA k : getPlacement(st, k).bufferCol = col)
    IN  RemovePlacements(st, hit)

\* A deleteRow that takes every placement covering the row
deleteRowCovered(st, row) ==
    RemovePlacements(st, KeysWhere(st, LAMBDA p : /\ p.bufferRow <= row
                                                  /\ row <= p.bufferRow + p.displayHeight - 1))

deleteRow(st, row) == RemovePlacements(st, RowKeys(st, row))

deleteColumn(st, col) == RemovePlacements(st, KeysWhere(st, LAMBDA p : p.bufferCol = col))

deleteByZIndex(st, zIndex) == RemovePlacements(st, KeysWhere(st, LAMBDA p : p.zIndex = zIndex))


\* ------------------------------------------------------------------------
\* GraphicsManager: command handlers.  The handlers work on a record w:
\*   manager  [nextImageId, needsRender, pendingChunkImageId, enabled]
\*   storage  the GraphicsStorage record
\*   shown    the image IDs handed to the image display callback, in order
\*   decode   the decode the handler is left awaiting (None when none)
\* ------------------------------------------------------------------------

\* The default cell metrics of createPlacement
CellWidth == 8

CellHeight == 16

\* Math.ceil(a / b) for positive b
CeilDiv(a, b) == IF a <= 0 THEN 0 ELSE (a + b - 1) \div b

\* cmd.format || 32
FormatOr32(cmd) ==
    IF IsSome(cmd.format) /\ Get(cmd.format) \notin {0, NaN} THEN Get(cmd.format) ELSE 32

\* cmd.payload || ""
PayloadOf(cmd) == OrElse(cmd.payload, <<>>)

\* The image ID handleTransmit resolves: explicit, pending, or a new one
ResolveImageId(manager, cmd) ==
    IF IsSome(cmd.imageId) THEN Get(cmd.imageId)
    ELSE IF IsSome(manager.pendingChunkImageId) THEN Get(manager.pendingChunkImageId)
    ELSE manager.nextImageId

\* The chunk list with the final payload put first
FinalChunkFirst(buffer, payload) == <<payload>> \o buffer.chunks

\* The chunk list the final command decodes: the buffered chunks and then
\* the final payload
FinalChunks(buffer, payload) == Append(buffer.chunks, payload)

\* The decode a final command starts from the chunks buffered for its image
DecodeOfChunks(imageId, buffer, cmd, display) ==
    [ imageId |-> imageId,
      bytes |-> combineChunksToBytes(FinalChunks(buffer, PayloadOf(cmd))),
      invalid |-> FALSE,
      format |-> buffer.format,
      width |-> IF IsSome(cmd.width) THEN cmd.width ELSE buffer.width,
      height |-> IF IsSome(cmd.height) THEN cmd.height ELSE buffer.height,
      compression |-> IF IsSome(cmd.compression) THEN cmd.compression ELSE buffer.compression,
      display |-> display,
      cmd |-> cmd ]

\* The decode a command carrying the whole image starts
DecodeOfPayload(imageId, cmd, display) ==
    [ imageId |-> imageId,
      bytes |-> base64ToBytes(PayloadOf(cmd)),
      invalid |-> base64Throws(PayloadOf(cmd)),
      format |-> FormatOr32(cmd),
      width |-> cmd.width,
      height |-> cmd.height,
      compression |-> cmd.compression,
      display |-> display,
      cmd |-> cmd ]

\* handleTransmit for a command with the more flag: buffer and return
BufferChunk(w, m1, cmd, imageId) ==
    [w EXCEPT !.manager = [m1 EXCEPT !.pendingChunkImageId = Some(imageId)],
              !.storage = addChunk(w.storage, imageId, PayloadOf(cmd), FormatOr32(cmd),
                                   cmd.width, cmd.height, cmd.compression),
              !.decode = None]

\* A final command that starts a decode even of nothing
StartDecodeOfNothing(w, m1, cmd, imageId, display) ==
    [w EXCEPT !.manager = [m1 EXCEPT !.pendingChunkImageId = None],
              !.decode = Some(DecodeOfPayload(imageId, cmd, display))]

\* A final command that leaves the chunk buffer of its image in the store
StartDecodeKeepingBuffer(w, m1, cmd, imageId, display) ==
    IF hasChunkBuffer(w.storage, imageId)
    THEN [w EXCEPT !.manager = [m1 EXCEPT !.pendingChunkImageId = None],
                   !.decode = Some(DecodeOfChunks(imageId, w.storage.chunkBuffers[imageId],
                                                  cmd, display))]
    ELSE [w EXCEPT !.manager = [m1 EXCEPT !.pendingChunkImageId = None],
                   !.decode = IF PayloadOf(cmd) = <<>> THEN None
                              ELSE Some(DecodeOfPayload(imageId, cmd, display))]

\* handleTransmit when combineChunksToBytes throws: the buffer has been
\* taken from the store and the exception leaves handleTransmit
TransmitThrows(w, m1, imageId) ==
    [w EXCEPT !.manager = [m1 EXCEPT !.pendingChunkImageId = None],
              !.storage = getAndClearChunks(w.storage, imageId),
              !.decode = None,
              !.thrown = TRUE]

\* handleTransmit for a final or only command, up to its await of the decoder
StartDecode(w, m1, cmd, imageId, display) ==
    IF /\ hasChunkBuffer(w.storage, imageId)
       /\ combineChunksThrows(FinalChunks(w.storage.chunkBuffers[imageId], PayloadOf(cmd)))
    THEN TransmitThrows(w, m1, imageId)
    ELSE IF hasChunkBuffer(w.storage, imageId)
    THEN [w EXCEPT !.manager = [m1 EXCEPT !.pendingChunkImageId = None],
                   !.storage = getAndClearChunks(w.storage, imageId),
                   !.decode = Some(DecodeOfChunks(imageId, w.storage.chunkBuffers[imageId],
                                                  cmd, display))]
    ELSE [w EXCEPT !.manager = [m1 EXCEPT !.pendingChunkImageId = None],
                   !.decode = IF PayloadOf(cmd) = <<>> THEN None
                              ELSE Some(DecodeOfPayload(imageId, cmd, display))]

\* The manager once handleTransmit has resolved the image ID
AfterResolve(manager, cmd) ==
    IF ~IsSome(cmd.imageId) /\ ~IsSome(manager.pendingChunkImageId)
    THEN [manager EXCEPT !.nextImageId = manager.nextImageId + 1]
    ELSE manager

\* A sendResponse that formats the response and passes it to the callback
sendResponseToCallback(w, response) ==
    [w EXCEPT !.responses = Append(w.responses, response)]

\* GraphicsManager.sendResponse: disabled, returns at once
sendResponse(w, response) == w

\* this.sendResponse(response) where the handler makes the call
Respond(w, response) == IF IsSome(response) THEN sendResponse(w, Get(response)) ELSE w

\* Whether handleTransmit throws before it reaches a sendResponse call
handleTransmitThrows(w, cmd) ==
    /\ cmd.more # Some(TRUE)
    /\ hasChunkBuffer(w.storage, ResolveImageId(w.manager, cmd))
    /\ combineChunksThrows(FinalChunks(w.storage.chunkBuffers[ResolveImageId(w.manager, cmd)],
                                       PayloadOf(cmd)))

\* The response handleTransmit hands to sendResponse before the decode
\* (None: no call)
handleTransmitResponse(w, cmd) ==
    IF cmd.more = Some(TRUE) \/ handleTransmitThrows(w, cmd) THEN None
    ELSE IF ~hasChunkBuffer(w.storage, ResolveImageId(w.manager, cmd)) /\ PayloadOf(cmd) = <<>>
    THEN Some([ok |-> FALSE, message |-> "no data"])
    ELSE IF cmd.quiet # Some(2) THEN Some([ok |-> TRUE, message |-> ""])
    ELSE None

\* handleTransmit up to its await of the decoder
handleTransmit(w, cmd, display) ==
    IF cmd.more = Some(TRUE)
    THEN BufferChunk(w, AfterResolve(w.manager, cmd), cmd, ResolveImageId(w.manager, cmd))
    ELSE StartDecode(Respond(w, handleTransmitResponse(w, cmd)),
                     AfterResolve(w.manager, cmd), cmd, ResolveImageId(w.manager, cmd),
                     display)

\* The placement createPlacement builds for an image of the store
NewPlacement(image, cmd, imageId, cursor, placementId) ==
    [ id |-> <<imageId, placementId>>,
      imageId |-> imageId,
      placementId |-> placementId,
      bufferRow |-> OrElse(cmd.cellY, cursor.row),
      bufferCol |-> OrElse(cmd.cellX, cursor.col),
      offsetX |-> OrElse(cmd.offsetX, 0),
      offsetY |-> OrElse(cmd.offsetY, 0),
      displayWidth |-> OrElse(cmd.displayWidth, CeilDiv(image.width, CellWidth)),
      displayHeight |-> OrElse(cmd.displayHeight, CeilDiv(image.height, CellHeight)),
      srcX |-> 0,
      srcY |-> 0,
      srcWidth |-> image.width,
      srcHeight |-> image.height,
      zIndex |-> OrElse(cmd.zIndex, 0),
      image |-> image ]

\* createPlacement once getImage has returned the image and left store st1
PlaceImage(w, st1, cmd, imageId, cursor, now) ==
    [w EXCEPT !.storage = setPlacement(st1, NewPlacement(st1.images[imageId], cmd, imageId,
                                                         cursor, OrElse(cmd.placementId, now))),
              !.manager = [w.manager EXCEPT !.needsRender = TRUE]]

createPlacement(w, cmd, imageId, cursor, now) ==
    IF ~hasImage(w.storage, imageId) THEN w
    ELSE PlaceImage(w, getImage(w.storage, imageId), cmd, imageId, cursor, now)

\* A put that does nothing
handlePutIgnored(w, cmd, cursor, now) == w

\* The response handlePut hands to sendResponse (None: no call)
handlePutResponse(w, cmd) ==
    IF ~IsSome(cmd.imageId) THEN Some([ok |-> FALSE, message |-> "no image id"])
    ELSE IF ~hasImage(w.storage, Get(cmd.imageId))
    THEN Some([ok |-> FALSE, message |-> "image not found"])
    ELSE IF cmd.quiet # Some(2) THEN Some([ok |-> TRUE, message |-> ""])
    ELSE None

handlePut(w, cmd, cursor, now) ==
    IF ~IsSome(cmd.imageId) THEN Respond(w, handlePutResponse(w, cmd))
    ELSE IF ~hasImage(w.storage, Get(cmd.imageId)) THEN Respond(w, handlePutResponse(w, cmd))
    ELSE Respond(createPlacement(w, cmd, Get(cmd.imageId), cursor, now),
                 handlePutResponse(w, cmd))

handleDelete(w, cmd, cursor) ==
    LET target == OrElse(cmd.deleteTarget, <<"a">>)
        st == w.storage
        st1 == CASE target \in {<<"a">>, <<"A">>} -> deleteAll(st)
                 [] target \in {<<"i">>, <<"I">>} ->
                      IF IsSome(cmd.imageId) THEN removeImage(st, Get(cmd.imageId)) ELSE st
                 [] target \in {<<"p">>, <<"P">>} ->
                      IF IsSome(cmd.imageId) /\ IsSome(cmd.placementId)
                      THEN removePlacement(st, <<Get(cmd.imageId), Get(cmd.placementId)>>)
                      ELSE st
                 [] target = <<"c">> -> deleteAtCursor(st, cursor.row, cursor.col)
                 [] target = <<"r">> -> deleteRow(st, cursor.row)
                 [] target = <<"C">> -> deleteColumn(st, cursor.col)
                 [] target = <<"z">> ->
                      IF IsSome(cmd.zIndex) THEN deleteByZIndex(st, Get(cmd.zIndex)) ELSE st
                 [] OTHER -> st
    IN  [w EXCEPT !.storage = st1, !.manager = [w.manager EXCEPT !.needsRender = TRUE]]

\* A clear that deletes the placements and keeps the rest
clearPlacementsOnly(w) ==
    [w EXCEPT !.storage = RemovePlacements(w.storage, KeysWhere(w.storage, LAMBDA p : TRUE)),
              !.manager = [w.manager EXCEPT !.needsRender = TRUE]]

\* GraphicsManager.clear
clear(w) ==
    [w EXCEPT !.storage = deleteAll(w.storage),
              !.manager = [w.manager EXCEPT !.needsRender = TRUE]]

\* GraphicsStorage.getStats, which GraphicsManager.getStats returns
getStats(st) ==
    [ imageCount |-> Cardinality(DOMAIN st.images),
      placementCount |-> Len(st.placements),
      memoryUsage |-> st.memoryUsage,
      maxMemory |-> MaxCacheMemory,
      chunkBuffers |-> Cardinality(DOMAIN st.chunkBuffers) ]

\* handleQuery only sends a response
handleQuery(w, cmd) == sendResponse(w, [ok |-> TRUE, message |-> "OK"])

\* handleCommand up to its first await
handleCommand(w, cmd, cursor, now) ==
    LET w0 == [w EXCEPT !.decode = None]
    IN  CASE cmd.action = <<"t">> -> handleTransmit(w0, cmd, FALSE)
          [] cmd.action = <<"T">> -> handleTransmit(w0, cmd, TRUE)
          [] cmd.action = <<"p">> -> handlePut(w0, cmd, cursor, now)
          [] cmd.action = <<"d">> -> handleDelete(w0, cmd, cursor)
          [] cmd.action = <<"q">> -> handleQuery(w0, cmd)
          [] OTHER -> w0

\* Whether the decoder rejects without reaching the bitmap call: a payload
\* base64ToBytes throws on, an unsupported format, or a raw format without
\* usable dimensions
DecodeMustFail(d) ==
    \/ d.invalid
    \/ d.format \notin {100, 32, 24}
    \/ /\ d.format \in {32, 24}
       /\ \/ ~IsSome(d.width) \/ ~IsSome(d.height)
          \/ Get(d.width) <= 0 \/ Get(d.height) <= 0

\* The bytes the browser's inflate returns are not computed by this code:
\* the result is kept apart from its input by a marker byte.
Inflate(bytes) == <<0>> \o bytes

\* The image handleTransmit stores after a successful decode to a bitmap of
\* side dim (format 100) or of the declared size (raw formats)
StoreDecoded(w, d, dim) ==
    [w EXCEPT !.storage = storeImage(w.storage, d.imageId, d.format,
                                     IF d.format = 100 THEN dim ELSE Get(d.width),
                                     IF d.format = 100 THEN dim ELSE Get(d.height),
                                     IF d.compression = Some(<<"z">>) THEN Inflate(d.bytes)
                                     ELSE d.bytes,
                                     TRUE),
              !.decode = None]

\* The display step of handleTransmit on the world w1 holding the new image
DisplayDecoded(w1, d, hasDisplayCallback, cursor, now) ==
    IF ~d.display THEN w1
    ELSE IF hasDisplayCallback THEN [w1 EXCEPT !.shown = Append(w1.shown, d.imageId)]
    ELSE createPlacement(w1, d.cmd, d.imageId, cursor, now)

\* The rest of handleTransmit after a successful decode
FinishTransmit(w, d, dim, hasDisplayCallback, cursor, now) ==
    DisplayDecoded(StoreDecoded(w, d, dim), d, hasDisplayCallback, cursor, now)

\* Whether the decoder throws before its first await, so that the promise
\* handleTransmit awaits is already rejected when it is returned
DecodeThrowsAtOnce(d) ==
    \/ d.invalid
    \/ /\ d.compression # Some(<<"z">>)
       /\ \/ d.format \notin {100, 32, 24}
          \/ d.format \in {32, 24} /\ (~IsSome(d.width) \/ ~IsSome(d.height))

\* ------------------------------------------------------------------------
\* State
\* ------------------------------------------------------------------------

VARIABLES
    wired,        \* TRUE: the manager is wired by Terminal.open (cursor, write
                  \* and display callbacks set); FALSE: a bare GraphicsManager
    pendingData,  \* KittyParser.pendingData of the manager's parser
    manager,      \* GraphicsManager fields
    storage,      \* GraphicsStorage fields
    shown,        \* image IDs passed to the image display callback
    responses,    \* responses passed to the callback of setResponseCallback
    calls,        \* the processData calls made so far, each with its position
    microQ,       \* the microtask queue: continuations ready to run, in order
    trace,        \* what the calls did to the outside, in order
    stream,       \* parser harness: the chunks still to feed
    fed,          \* parser harness: the results of the extract calls so far
    parserPending, \* parser harness: pendingData of the parser under test
    store,        \* storage harness: the GraphicsStorage under test
    ops,          \* storage harness: the calls made on it so far, with results
    payloadBytes, \* codec harness: the bytes of an image payload
    encoded,      \* codec harness: their Base64 text
    decoded,      \* codec harness: the bytes decoded from the whole text
    pieces,       \* codec harness: the text split into chunks
    combined,     \* codec harness: the bytes combined from the chunks
    argument,     \* function harness: the argument of the function under test
    returned      \* function harness: what the function returned for it

vars == <<wired, pendingData, manager, storage, shown, responses, calls, microQ, trace,
          stream, fed, parserPending, store, ops,
          payloadBytes, encoded, decoded, pieces, combined, argument, returned>>

managerVars == <<wired, pendingData, manager, storage, shown, responses, calls, microQ, trace>>

parserVars == <<stream, fed, parserPending>>

storeVars == <<store, ops>>

codecVars == <<payloadBytes, encoded, decoded, pieces, combined>>

pureVars == <<argument, returned>>

\* The number of write calls explored
MaxCalls == 2

\* Values of Date.now() & 0xffffff
NowValues == {7, 8}

\* Side lengths of the bitmaps the browser decodes a PNG to
PngSizes == {1, 9}

Ev(c, type, k, text) == [call |-> c, type |-> type, k |-> k, text |-> text]

Job(c, job) == [call |-> c, job |-> job]

\* The text the terminal core has received, in order
CoreText(tr) ==
    Concat([i \in 1..Len(SelectSeq(tr, LAMBDA e : e.type \in {"fwd", "core"})) |->
              SelectSeq(tr, LAMBDA e : e.type \in {"fwd", "core"})[i].text])

\* The cursor of the terminal core after the text it has received: a line
\* feed starts a row, any other character advances the column.  The core is
\* outside this code; only the dependence of the cursor on the text matters.
CoreCursor(text) ==
    LET lfs == {i \in 1..Len(text) : text[i] = "LF"}
        last == IF lfs = {} THEN 0 ELSE CHOOSE i \in lfs : \A j \in lfs : j <= i
    IN  [row |-> Cardinality(lfs), col |-> Len(text) - last]

\* this.cursorCallback?.() ?? { row: 0, col: 0 }
getCursorPosition(isWired, tr) ==
    IF isWired THEN CoreCursor(CoreText(tr)) ELSE [row |-> 0, col |-> 0]

NoResult ==
    [cleanedData |-> <<>>, commands |-> <<>>, hasGraphics |-> FALSE,
     fullData |-> <<>>, pendingData |-> <<>>]

\* A call that returned before it reached the parser
NotExtracted == [extracted |-> FALSE, result |-> NoResult]

\* A processData call: its input after the strips, whether it reached the
\* parser and the parser's result,
\* whether it runs processDataSequentially, the command k it is handling,
\* lastEnd, the decode it awaits and its outcome, whether the promise of
\* processDataSequentially has been chained to the one processData
\* returned, the returned text, and where the call is.
NewCall(chunk, data, parse, sequential) ==
    [chunk |-> chunk, data |-> data, extracted |-> parse.extracted,
     result |-> parse.result, sequential |-> sequential,
     k |-> 0, lastEnd |-> 0, decode |-> None, outcome |-> None,
     linked |-> FALSE, ret |-> None, thrown |-> FALSE, pc |-> "queued"]

\* The text from the start of the working text up to the command: what
\* the loop would forward if it did not advance lastEnd
TextFromStart(fullData, lastEnd, parsed) == Substring(fullData, 0, parsed.startIndex)

\* fullData.substring(lastEnd, parsed.startIndex)
TextBefore(fullData, lastEnd, parsed) == Substring(fullData, lastEnd, parsed.startIndex)

\* The whole tail of the working text after the last command
WholeTail(fullData, lastEnd, hasPending) == SubstringFrom(fullData, lastEnd)

\* The text processDataSequentially returns after its loop
Remaining(fullData, lastEnd, hasPending) ==
    LET remaining == SubstringFrom(fullData, lastEnd)
        apcStart == IndexOf(remaining, APC_START, 0)
    IN  IF hasPending /\ apcStart # -1 THEN Substring(remaining, 0, apcStart)
        ELSE remaining

\* What processData returns when the parser found no command
ReturnedWithoutCommands(data, result) == data

\* What processData returns after its fallback loop
ReturnedAfterFallback(result) == result.cleanedData


\* ------------------------------------------------------------------------
\* Steps of a processData call.  A step runs from one suspension of the
\* call to the next; cs, tr and q are the calls, the trace and the
\* microtask queue as the step has left them so far.
\* ------------------------------------------------------------------------

\* The manager's objects as the handlers take them
World ==
    [manager |-> manager, storage |-> storage, shown |-> shown,
     responses |-> responses, decode |-> None, thrown |-> FALSE]

\* The handlers' effect on the manager's objects
Becomes(w) ==
    /\ manager' = w.manager
    /\ storage' = w.storage
    /\ shown' = w.shown
    /\ responses' = w.responses

\* The trace of a loop that forwards nothing
NothingForwarded(c, rec, k, lastEnd, tr) == tr

\* The trace once the loop has forwarded the text before command k
\* (sequential mode, non-empty text)
Forwarded(c, rec, k, lastEnd, tr) ==
    IF rec.sequential /\ TextBefore(rec.result.fullData, lastEnd, rec.result.commands[k]) # <<>>
    THEN Append(tr, Ev(c, "fwd", k,
                       TextBefore(rec.result.fullData, lastEnd, rec.result.commands[k])))
    ELSE tr

\* The continuation the await of a command's handler resumes first
JobAfter(cmd, w) ==
    IF cmd.action \notin {<<"t">>, <<"T">>} THEN "loop"
    ELSE IF IsSome(w.decode) THEN "ht"
    ELSE "hc"

\* The loop suspends on command k, whose handler has run up to its first
\* await and left w
Suspend(c, cs, k, lastEnd, tr1, q, after, cmd, w) ==
    /\ Becomes(w)
    /\ trace' = IF JobAfter(cmd, w) = "loop"
                THEN tr1 \o <<Ev(c, "exec", k, <<>>), Ev(c, "done", k, <<>>)>>
                ELSE Append(tr1, Ev(c, "exec", k, <<>>))
    /\ IF IsSome(w.decode) /\ ~DecodeThrowsAtOnce(Get(w.decode))
       THEN /\ calls' = [cs EXCEPT ![c].k = k, ![c].lastEnd = lastEnd,
                                   ![c].decode = w.decode, ![c].outcome = None,
                                   ![c].pc = "decoding"]
            /\ microQ' = q \o after
       ELSE /\ calls' = [cs EXCEPT ![c].k = k, ![c].lastEnd = lastEnd,
                                   ![c].decode = w.decode,
                                   ![c].outcome = IF IsSome(w.decode)
                                                  THEN Some([ok |-> FALSE, dim |-> 0])
                                                  ELSE None,
                                   ![c].thrown = w.thrown,
                                   ![c].pc = "queued"]
            /\ microQ' = Append(q, Job(c, JobAfter(cmd, w))) \o after

\* The handler of command k runs with the cursor the core has after tr1
Execute(c, cs, k, lastEnd, tr1, q, after) ==
    \E now \in NowValues :
        Suspend(c, cs, k, lastEnd, tr1, q, after, cs[c].result.commands[k].command,
                handleCommand(World, cs[c].result.commands[k].command,
                              getCursorPosition(wired, tr1), now))

\* One turn of the command loop for command k, up to the await of
\* handleCommand: forward the text before the command (sequential mode),
\* run the handler up to its first await, and leave the continuation that
\* await will resume.  after: the jobs the caller queues once the loop has
\* suspended.
RunCommand(c, cs, k, lastEnd, tr, q, after) ==
    Execute(c, cs, k, lastEnd, Forwarded(c, cs[c], k, lastEnd, tr), q, after)

\* processDataSequentially resolves with ret
ResolveSequential(c, cs, lastEnd, tr, q, ret) ==
    /\ trace' = Append(tr, Ev(c, "ret", cs[c].k, ret))
    /\ calls' = [cs EXCEPT ![c].lastEnd = lastEnd, ![c].ret = Some(ret),
                           ![c].pc = IF cs[c].linked THEN "queued" ELSE "resolved"]
    /\ microQ' = IF cs[c].linked THEN Append(q, Job(c, "reaction")) ELSE q
    /\ UNCHANGED <<manager, storage, shown, responses>>

\* processData resolves with ret after its fallback loop
ResolveFallback(c, cs, tr, q, ret) ==
    /\ trace' = Append(tr, Ev(c, "ret", cs[c].k, ret))
    /\ calls' = [cs EXCEPT ![c].ret = Some(ret), ![c].pc = "queued"]
    /\ microQ' = Append(q, Job(c, "write"))
    /\ UNCHANGED <<manager, storage, shown, responses>>

\* The end of the command loop: processDataSequentially resolves with the
\* remaining text, or processData resolves with the cleaned text
FinishLoop(c, cs, lastEnd, tr, q) ==
    IF cs[c].sequential
    THEN ResolveSequential(c, cs, lastEnd, tr, q,
                           Remaining(cs[c].result.fullData, lastEnd, pendingData # <<>>))
    ELSE ResolveFallback(c, cs, tr, q, ReturnedAfterFallback(cs[c].result))

\* The await of a rejected handleCommand throws in the loop: the promise of
\* processDataSequentially, or of processData, rejects and nothing is returned
RejectLoop(c, cs, tr, q) ==
    /\ trace' = Append(tr, Ev(c, "rej", cs[c].k, <<>>))
    /\ calls' = [cs EXCEPT ![c].pc = IF cs[c].sequential /\ ~cs[c].linked
                                     THEN "resolved" ELSE "queued"]
    /\ microQ' = IF ~cs[c].sequential THEN Append(q, Job(c, "write"))
                 ELSE IF cs[c].linked THEN Append(q, Job(c, "reaction"))
                 ELSE q
    /\ UNCHANGED <<manager, storage, shown, responses>>

\* processData returning a string before any await
ReturnAtOnce(c, chunk, data, result, ret) ==
    /\ calls' = Append(calls, [NewCall(chunk, data, result, FALSE) EXCEPT !.ret = Some(ret)])
    /\ trace' = Append(trace, Ev(c, "ret", 0, ret))
    /\ microQ' = Append(microQ, Job(c, "write"))
    /\ UNCHANGED <<manager, storage, shown, responses>>

\* processData once extract has returned result
AfterExtract(c, chunk, data, result) ==
    /\ pendingData' = result.pendingData
    /\ IF ~result.hasGraphics
       THEN ReturnAtOnce(c, chunk, data, [extracted |-> TRUE, result |-> result],
                         ReturnedWithoutCommands(data, result))
       ELSE RunCommand(c, Append(calls, NewCall(chunk, data,
                                                [extracted |-> TRUE, result |-> result],
                                                wired)),
                       1, 0, trace, microQ,
                       IF wired THEN <<Job(c, "thenable")>> ELSE <<>>)

\* processData on the text `data` the two strips have left
AfterStrips(c, chunk, data) ==
    IF ~hasGraphicsSequence(data) /\ pendingData = <<>>
    THEN ReturnAtOnce(c, chunk, data, NotExtracted, data) /\ UNCHANGED pendingData
    ELSE AfterExtract(c, chunk, data, extract(pendingData, data))

\* GraphicsManager.processData(data), up to the first suspension of the call
processData(c, chunk, data) ==
    IF ~manager.enabled
    THEN ReturnAtOnce(c, chunk, data, NotExtracted, data) /\ UNCHANGED pendingData
    ELSE AfterStrips(c, chunk, stripUnicodePlaceholders(stripEchoedResponses(data)))

\* Terminal.write(chunk) on a wired manager, manager.processData(chunk) on
\* a bare one: everything up to the first suspension of the call
Submit(chunk) ==
    processData(Len(calls) + 1, chunk,
                IF wired THEN stripEchoedResponses(chunk) ELSE chunk)

\* ------------------------------------------------------------------------
\* Chunks the callers submit
\* ------------------------------------------------------------------------

\* ESC _ G control ; payload ESC \
Frame(control, payload) == APC_START \o control \o <<";">> \o payload \o ST

\* The frame as tmux passes it through: wrapped, inner escapes doubled
RECURSIVE DoubleEscapes(_)
DoubleEscapes(s) ==
    IF s = <<>> THEN <<>>
    ELSE (IF Head(s) = ESC THEN <<ESC, ESC>> ELSE <<Head(s)>>) \o DoubleEscapes(Tail(s))

TmuxWrap(frame) == <<ESC, "P", "t", "m", "u", "x", ";">> \o DoubleEscapes(frame) \o ST

\* a=T,f=100 with a payload: a one-shot PNG, displayed
PngFrame == Frame(<<"a", "=", "T", ",", "f", "=", "1", "0", "0">>, <<"d", "G", "V", "z", "d", "A", "=", "=">>)

\* i=2,m=1: first chunk of image 2 (raw RGBA, 1x1)
MoreFrame == Frame(<<"i", "=", "2", ",", "s", "=", "1", ",", "v", "=", "1", ",", "m", "=", "1">>, <<"A", "Q", "I", "D">>)

\* m=1,v=3: a further chunk of whatever is pending, declaring the height
HeightFrame == Frame(<<"m", "=", "1", ",", "v", "=", "3">>, <<"B", "A", "U", "G">>)

\* m=0,f=24,s=2: a final chunk declaring the format and the width
FormatFrame == Frame(<<"m", "=", "0", ",", "f", "=", "2", "4", ",", "s", "=", "2">>, <<"A", "A", "A", "A">>)

\* m=0 with a payload of padding only
PaddingFrame == Frame(<<"m", "=", "0">>, <<"=">>)

\* m=0 without an ID: the final chunk of whatever is pending
FinalFrame == Frame(<<"m", "=", "0">>, <<"/", "w", "=", "=">>)

\* a=t,i=1,s=2,v=1: a raw one-shot image stored without display
RawFrame == Frame(<<"a", "=", "t", ",", "i", "=", "1", ",", "s", "=", "2", ",", "v", "=", "1">>, <<"A", "A", "A", "A">>)

\* a=t,f=7: a format the decoder does not know
BadFormatFrame == Frame(<<"a", "=", "t", ",", "f", "=", "7">>, <<"A", "A", "A", "A">>)

\* a=p,i=1,p=3: place image 1
PutFrame == Frame(<<"a", "=", "p", ",", "i", "=", "1", ",", "p", "=", "3">>, <<>>)

\* a=p without an ID
PutNoIdFrame == Frame(<<"a", "=", "p">>, <<>>)

\* a=t,i=1 with an empty payload
EmptyFrame == Frame(<<"a", "=", "t", ",", "i", "=", "1">>, <<>>)

\* a=d,d=a: delete everything
DeleteFrame == Frame(<<"a", "=", "d", ",", "d", "=", "a">>, <<>>)

\* a=d,d=i,i=1: delete image 1
DeleteImageFrame == Frame(<<"a", "=", "d", ",", "d", "=", "i", ",", "i", "=", "1">>, <<>>)

\* a=q,i=1: query
QueryFrame == Frame(<<"a", "=", "q", ",", "i", "=", "1">>, <<>>)

Chunks ==
    { <<"x", "LF", "y">>,
      <<"a">> \o PngFrame \o <<"b">>,
      <<"c">> \o MoreFrame,
      FinalFrame \o <<"d">>,
      PaddingFrame \o <<"v">> \o QueryFrame,
      HeightFrame \o FormatFrame,
      <<"a">> \o RawFrame \o <<"b">> \o PutFrame \o <<"c">>,
      RawFrame \o FinalFrame,
      DeleteImageFrame \o <<"s">>,
      PutNoIdFrame \o <<"u">> \o EmptyFrame,
      BadFormatFrame,
      <<"p">> \o PutFrame \o <<"q">> \o DeleteFrame \o <<"r">>,
      QueryFrame \o <<"e">> \o APC_START \o <<"a", "=", "T", ";", "d", "a">>,
      <<"t", "a", ESC, "\\", "f">>,
      <<"g">> \o APC_START \o <<"a", "=", "T">>,
      TmuxWrap(PngFrame) \o <<"h">>,
      <<ESC, "P", "t", "m", "u", "x", ";", ESC, ESC, "_", "G", "a", "=", "T", ";", "d", "a">>,
      <<"i", "=", "1", ";", "O", "K", "k">>,
      <<"m", PlaceholderHigh, PlaceholderLow, "n">>,
      <<"o", ESC, "]", "1", "1", ";", "?", "BEL">> }

\* The chunks written to a terminal whose writes overlap
TerminalChunks ==
    { <<"x", "LF", "y">>,
      <<"a">> \o PngFrame \o <<"b">>,
      <<"c">> \o MoreFrame,
      FinalFrame \o <<"d">>,
      <<"p">> \o PutFrame \o <<"q">> \o DeleteFrame \o <<"r">> }

\* ------------------------------------------------------------------------
\* Actions
\* ------------------------------------------------------------------------

Idle == \A c \in 1..Len(calls) : calls[c].pc \in {"done", "failed"}

\* A caller that awaits each call before making the next
Write(chunk) ==
    /\ Len(calls) < MaxCalls
    /\ Idle
    /\ Submit(chunk)
    /\ UNCHANGED <<wired, parserVars, storeVars, codecVars, pureVars>>

\* Terminal.write called while an earlier write is still in progress
WriteWhileBusy(chunk) ==
    /\ Len(calls) < MaxCalls
    /\ ~Idle
    /\ wired
    /\ Submit(chunk)
    /\ UNCHANGED <<wired, parserVars, storeVars, codecVars, pureVars>>

\* The host calls GraphicsManager.clear() after a write has completed (once)
Clear ==
    /\ calls # <<>>
    /\ Idle
    /\ \A i \in 1..Len(trace) : trace[i].type # "clear"
    /\ Becomes(clear(World))
    /\ trace' = Append(trace, Ev(0, "clear", 0, <<>>))
    /\ UNCHANGED <<wired, pendingData, calls, microQ, parserVars, storeVars, codecVars, pureVars>>

\* The decoder's promise settles: rejected when the decoder cannot succeed,
\* otherwise with either outcome, a PNG decoding to a bitmap of side dim
DecodeSettles(c, ok, dim) ==
    /\ c \in 1..Len(calls)
    /\ calls[c].pc = "decoding"
    /\ ok => ~DecodeMustFail(Get(calls[c].decode))
    /\ calls' = [calls EXCEPT ![c].outcome = Some([ok |-> ok, dim |-> dim]),
                              ![c].pc = "queued"]
    /\ microQ' = Append(microQ, Job(c, "ht"))
    /\ UNCHANGED <<wired, pendingData, manager, storage, shown, responses, trace, parserVars, storeVars, codecVars, pureVars>>

\* handleTransmit resumes after the decode: store and display, or the catch
ResumeTransmit ==
    /\ microQ # <<>>
    /\ Head(microQ).job = "ht"
    /\ IF Get(calls[Head(microQ).call].outcome).ok
       THEN \E now \in NowValues :
              Becomes(FinishTransmit(World, Get(calls[Head(microQ).call].decode),
                                     Get(calls[Head(microQ).call].outcome).dim, wired,
                                     getCursorPosition(wired, trace), now))
       ELSE UNCHANGED <<manager, storage, shown, responses>>
    /\ trace' = IF Get(calls[Head(microQ).call].outcome).ok
                THEN Append(trace, Ev(Head(microQ).call, "store",
                                      calls[Head(microQ).call].k, <<>>))
                ELSE trace
    /\ calls' = [calls EXCEPT ![Head(microQ).call].decode = None]
    /\ microQ' = Append(Tail(microQ), Job(Head(microQ).call, "hc"))
    /\ UNCHANGED <<wired, pendingData, parserVars, storeVars, codecVars, pureVars>>

\* handleCommand resumes after handleTransmit and completes, or rejects
\* with the exception handleTransmit threw
ResumeCommand ==
    /\ microQ # <<>>
    /\ Head(microQ).job = "hc"
    /\ LET c == Head(microQ).call
       IN  /\ trace' = IF calls[c].thrown THEN trace
                       ELSE Append(trace, Ev(c, "done", calls[c].k, <<>>))
           /\ microQ' = Append(Tail(microQ), Job(c, "loop"))
    /\ UNCHANGED <<wired, pendingData, manager, storage, shown, responses, calls, parserVars, storeVars, codecVars, pureVars>>

\* The command loop resumes after handleCommand: the next command, the end,
\* or the exception of a rejected handleCommand
ResumeLoop ==
    /\ microQ # <<>>
    /\ Head(microQ).job = "loop"
    /\ LET c == Head(microQ).call
           rec == calls[c]
           lastEnd == IF rec.sequential THEN rec.result.commands[rec.k].endIndex ELSE 0
       IN  IF rec.thrown THEN RejectLoop(c, calls, trace, Tail(microQ))
           ELSE IF rec.k < Len(rec.result.commands)
           THEN RunCommand(c, calls, rec.k + 1, lastEnd, trace, Tail(microQ), <<>>)
           ELSE FinishLoop(c, calls, lastEnd, trace, Tail(microQ))
    /\ UNCHANGED <<wired, pendingData, parserVars, storeVars, codecVars, pureVars>>

\* The promise processData returned adopts the one of processDataSequentially
ChainPromise ==
    /\ microQ # <<>>
    /\ Head(microQ).job = "thenable"
    /\ LET c == Head(microQ).call
           resolved == calls[c].pc = "resolved"
       IN  /\ calls' = [calls EXCEPT ![c].linked = TRUE,
                                     ![c].pc = IF resolved THEN "queued" ELSE @]
           /\ microQ' = IF resolved THEN Append(Tail(microQ), Job(c, "reaction"))
                        ELSE Tail(microQ)
    /\ UNCHANGED <<wired, pendingData, manager, storage, shown, responses, trace, parserVars, storeVars, codecVars, pureVars>>

\* The promise processData returned resolves
ResolveProcessData ==
    /\ microQ # <<>>
    /\ Head(microQ).job = "reaction"
    /\ microQ' = Append(Tail(microQ), Job(Head(microQ).call, "write"))
    /\ UNCHANGED <<wired, pendingData, manager, storage, shown, responses, calls, trace, parserVars, storeVars, codecVars, pureVars>>

\* The caller resumes with the returned text: writeInternal answers the OSC
\* color queries and writes the rest to the terminal core.  After a rejected
\* processData the await throws instead and nothing is written.
ResumeWrite ==
    /\ microQ # <<>>
    /\ Head(microQ).job = "write"
    /\ LET c == Head(microQ).call
           processedData == handleOSCColorQueries(Get(calls[c].ret))
       IN  /\ trace' = IF wired /\ ~calls[c].thrown
                       THEN Append(trace, Ev(c, "core", 0, processedData))
                       ELSE trace
           /\ calls' = [calls EXCEPT ![c].pc = IF calls[c].thrown THEN "failed"
                                               ELSE "done"]
           /\ microQ' = Tail(microQ)
    /\ UNCHANGED <<wired, pendingData, manager, storage, shown, responses, parserVars, storeVars, codecVars, pureVars>>


\* ------------------------------------------------------------------------
\* Specifications
\* ------------------------------------------------------------------------

InitManager ==
    /\ pendingData = <<>>
    /\ manager = [nextImageId |-> 1, needsRender |-> FALSE,
                  pendingChunkImageId |-> None, enabled |-> TRUE]
    /\ storage = EmptyStorage
    /\ shown = <<>>
    /\ responses = <<>>
    /\ calls = <<>>
    /\ microQ = <<>>
    /\ trace = <<>>

ParserIdle ==
    /\ stream = <<>>
    /\ fed = <<>>
    /\ parserPending = <<>>

StoreIdle ==
    /\ store = EmptyStorage
    /\ ops = <<>>

CodecIdle ==
    /\ payloadBytes = <<>>
    /\ encoded = None
    /\ decoded = None
    /\ pieces = None
    /\ combined = None

PureIdle ==
    /\ argument = None
    /\ returned = None

\* A manager, bare or wired, whose caller awaits each call
Init ==
    /\ wired \in BOOLEAN
    /\ InitManager
    /\ ParserIdle
    /\ StoreIdle
    /\ CodecIdle
    /\ PureIdle

Microtask ==
    \/ ResumeTransmit
    \/ ResumeCommand
    \/ ResumeLoop
    \/ ChainPromise
    \/ ResolveProcessData
    \/ ResumeWrite

Settle == \E c \in 1..MaxCalls, ok \in BOOLEAN, dim \in PngSizes : DecodeSettles(c, ok, dim)

Next ==
    \/ \E chunk \in Chunks : Write(chunk)
    \/ Clear
    \/ Settle
    \/ Microtask

Spec == Init /\ [][Next]_vars

\* A terminal whose write is called without waiting for earlier writes
InitTerminal ==
    /\ wired = TRUE
    /\ InitManager
    /\ ParserIdle
    /\ StoreIdle
    /\ CodecIdle
    /\ PureIdle

NextTerminal ==
    \/ \E chunk \in TerminalChunks : Write(chunk)
    \/ \E chunk \in TerminalChunks : WriteWhileBusy(chunk)
    \/ Settle
    \/ Microtask

SpecTerminal == InitTerminal /\ [][NextTerminal]_vars


\* ------------------------------------------------------------------------
\* Parser harness: a KittyParser fed chunks built from literal runs and
\* frames, as the parser's tests build them
\* ------------------------------------------------------------------------

\* The decimal digits of a natural number
RECURSIVE IntToDigits(_)
IntToDigits(n) ==
    IF n < 10 THEN <<CHOOSE c \in Digits : DigitVal(c) = n>>
    ELSE Append(IntToDigits(n \div 10), CHOOSE c \in Digits : DigitVal(c) = n % 10)

\* What a frame says: the fields its control data carries and its payload
FrameDesc(action, imageId, placementId, format, more, deleteTarget, payload) ==
    [ action |-> action, imageId |-> imageId, placementId |-> placementId,
      format |-> format, more |-> more, deleteTarget |-> deleteTarget,
      payload |-> payload ]

NoDesc == FrameDesc(<<>>, None, None, None, None, None, <<>>)

\* key=value for a field the descriptor carries, preceded by a comma
NumField(key, o) == IF IsSome(o) THEN <<",", key, "=">> \o IntToDigits(Get(o)) ELSE <<>>

ControlOf(desc) ==
    <<"a", "=">> \o desc.action
    \o NumField("i", desc.imageId)
    \o NumField("p", desc.placementId)
    \o NumField("f", desc.format)
    \o (IF IsSome(desc.more) THEN <<",", "m", "=", IF Get(desc.more) THEN "1" ELSE "0">> ELSE <<>>)
    \o (IF IsSome(desc.deleteTarget) THEN <<",", "d", "=">> \o Get(desc.deleteTarget) ELSE <<>>)

\* ESC _ G control [; payload] ESC \
FrameText(desc) ==
    APC_START \o ControlOf(desc)
    \o (IF desc.payload = <<>> THEN <<>> ELSE <<";">> \o desc.payload) \o ST

LitSeg(text) == [kind |-> "lit", text |-> text, desc |-> NoDesc]

FrameSeg(desc) == [kind |-> "frame", text |-> FrameText(desc), desc |-> desc]

Literals == { <<"a", "b">>, <<"x", ESC, "[", "m">> }

FrameDescs ==
    { FrameDesc(<<"T">>, None, None, Some(100), None, None, <<"d", "G", "V", "z", "d", "A", "=", "=">>),
      FrameDesc(<<"t">>, Some(12), None, Some(32), Some(TRUE), None, <<"A", "Q", "I", "D">>),
      FrameDesc(<<"p">>, Some(3), Some(40), None, Some(FALSE), None, <<>>),
      FrameDesc(<<"d">>, None, None, None, None, Some(<<"a">>), <<>>) }

Segments == {LitSeg(t) : t \in Literals} \cup {FrameSeg(d) : d \in FrameDescs}

\* The longest run of segments in a chunk
MaxSegs == 3

SegLists == UNION {[1..n -> Segments] : n \in 1..MaxSegs}

RECURSIVE TextOf(_)
TextOf(segs) == IF segs = <<>> THEN <<>> ELSE Head(segs).text \o TextOf(Tail(segs))

\* The chunk with every frame wrapped in a tmux passthrough wrapper
RECURSIVE WrappedTextOf(_)
WrappedTextOf(segs) ==
    IF segs = <<>> THEN <<>>
    ELSE (IF Head(segs).kind = "frame" THEN TmuxWrap(Head(segs).text) ELSE Head(segs).text)
         \o WrappedTextOf(Tail(segs))

\* A chunk of the harness: its text, the segments it was built from (empty
\* for a piece of a divided chunk), the undivided text it is a piece of and
\* that text without tmux wrappers
PlainChunk(segs) ==
    [text |-> TextOf(segs), segs |-> segs, plain |-> TextOf(segs), whole |-> TextOf(segs)]

WrappedChunk(segs) ==
    [text |-> WrappedTextOf(segs), segs |-> segs, plain |-> TextOf(segs),
     whole |-> WrappedTextOf(segs)]

Piece(chunk, a, b) ==
    [text |-> Substring(chunk.text, a, b), segs |-> <<>>, plain |-> chunk.plain,
     whole |-> chunk.text]

\* A chunk divided in two at offset cut
Divided(chunk, cut) ==
    <<Piece(chunk, 0, cut), Piece(chunk, cut, Len(chunk.text))>>

\* A chunk divided in three at offsets cut and cut + 2
DividedTwice(chunk, cut) ==
    <<Piece(chunk, 0, cut), Piece(chunk, cut, cut + 2), Piece(chunk, cut + 2, Len(chunk.text))>>

HasFrame(segs) == \E i \in 1..Len(segs) : segs[i].kind = "frame"

\* The chunks that are divided: text, one frame, text
DividedLists ==
    {segs \in SegLists : /\ Len(segs) = 3
                         /\ segs[1].kind = "lit" /\ segs[2].kind = "frame"
                         /\ segs[3].kind = "lit"}

ShortLists == {segs \in SegLists : Len(segs) <= 2}

Streams ==
    {<<PlainChunk(segs)>> : segs \in SegLists}
    \cup {<<PlainChunk(a), PlainChunk(b)>> : a, b \in {segs \in SegLists : Len(segs) = 1}}
    \cup {<<WrappedChunk(segs)>> : segs \in {l \in ShortLists : HasFrame(l)}}
    \cup {<<WrappedChunk(<<a>>), WrappedChunk(<<b>>)>> :
             a, b \in {FrameSeg(d) : d \in FrameDescs}}
    \cup UNION {{Divided(PlainChunk(segs), cut) : cut \in 1..(Len(TextOf(segs)) - 1)} :
                   segs \in DividedLists}
    \cup UNION {{DividedTwice(PlainChunk(segs), cut) : cut \in 1..(Len(TextOf(segs)) - 3)} :
                   segs \in DividedLists}
    \cup UNION {{Divided(WrappedChunk(segs), cut) : cut \in 1..(Len(WrappedTextOf(segs)) - 1)} :
                   segs \in {l \in ShortLists : HasFrame(l)}}

\* parser.extract(chunk) on the parser under test
Feed ==
    /\ stream # <<>>
    /\ fed' = Append(fed, [chunk |-> Head(stream), before |-> parserPending,
                           result |-> extract(parserPending, Head(stream).text)])
    /\ parserPending' = extract(parserPending, Head(stream).text).pendingData
    /\ stream' = Tail(stream)
    /\ UNCHANGED <<managerVars, storeVars, codecVars, pureVars>>

InitParser ==
    /\ stream \in Streams
    /\ fed = <<>>
    /\ parserPending = <<>>
    /\ wired = FALSE
    /\ InitManager
    /\ StoreIdle
    /\ CodecIdle
    /\ PureIdle

NextParser == Feed

SpecParser == InitParser /\ [][NextParser]_vars


\* ------------------------------------------------------------------------
\* Storage harness: a GraphicsStorage with the limits above, called
\* directly as the storage tests call it
\* ------------------------------------------------------------------------

\* Image IDs: one more than the store holds
ImageIds == 1..(MaxImages + 1)

\* The images a lookup or a removal names
TouchedIds == {1, 2}

\* The calls made on the store under test
MaxOps == MaxImages + 2

\* The side of the bitmaps stored
BitmapSide == 2

SmallData == <<7>>

LargeData == [i \in 1..13 |-> 0]

\* The images stored: data and whether a bitmap comes with it
ImageKinds == { <<SmallData, FALSE>>, <<SmallData, TRUE>>, <<LargeData, FALSE>> }

\* The placements set: of image 1, by placement ID, first row and height
HarnessPlacement(placementId, row, height) ==
    [ id |-> <<1, placementId>>, imageId |-> 1, placementId |-> placementId,
      bufferRow |-> row, bufferCol |-> 0, offsetX |-> 0, offsetY |-> 0,
      displayWidth |-> 1, displayHeight |-> height,
      srcX |-> 0, srcY |-> 0, srcWidth |-> BitmapSide, srcHeight |-> BitmapSide,
      zIndex |-> 0 ]

HarnessPlacements ==
    { HarnessPlacement(pid, rh[1], rh[2]) : pid \in {1, 2}, rh \in {<<0, 3>>, <<2, 1>>} }

\* The row ranges asked for
RowRanges == { <<0, 0>>, <<1, 2>>, <<3, 3>> }

\* A call on the store: its name, the image it names, the bytes charged
\* for the image it stores, the rows it asks for, and what it returned
Op(name, id, bytes, rows, result) ==
    [op |-> name, id |-> id, bytes |-> bytes, rows |-> rows, result |-> result]

\* A call on the store that names a placement, a position or a layer
PlacementOp(name, arg, result) ==
    [op |-> name, id |-> 0, bytes |-> 0, rows |-> <<>>, result |-> result, arg |-> arg]

StoreImage(id, kind) ==
    /\ Len(ops) < MaxOps
    /\ store' = storeImage(store, id, 100, BitmapSide, BitmapSide, kind[1], kind[2])
    /\ ops' = Append(ops, Op("storeImage", id,
                             ImageByteSize(BitmapSide, BitmapSide, kind[1], kind[2]),
                             <<>>, TRUE))
    /\ UNCHANGED <<managerVars, parserVars, codecVars, pureVars>>

GetImage(id) ==
    /\ Len(ops) < MaxOps
    /\ store' = getImage(store, id)
    /\ ops' = Append(ops, Op("getImage", id, 0, <<>>, hasImage(store, id)))
    /\ UNCHANGED <<managerVars, parserVars, codecVars, pureVars>>

RemoveImage(id) ==
    /\ Len(ops) < MaxOps
    /\ store' = removeImage(store, id)
    /\ ops' = Append(ops, Op("removeImage", id, 0, <<>>, removeImageReturns(store, id)))
    /\ UNCHANGED <<managerVars, parserVars, codecVars, pureVars>>

DeleteAll ==
    /\ Len(ops) < MaxOps
    /\ store' = deleteAll(store)
    /\ ops' = Append(ops, Op("deleteAll", 0, 0, <<>>, TRUE))
    /\ UNCHANGED <<managerVars, parserVars, codecVars, pureVars>>

SetPlacement(placement) ==
    /\ Len(ops) < MaxOps
    /\ store' = setPlacement(store, placement)
    /\ ops' = Append(ops, PlacementOp("setPlacement", placement, TRUE))
    /\ UNCHANGED <<managerVars, parserVars, codecVars, pureVars>>

GetPlacementsInRange(rows) ==
    /\ Len(ops) < MaxOps
    /\ ops' = Append(ops, Op("getPlacementsInRange", 0, 0, rows,
                             getPlacementsInRange(store, rows[1], rows[2])))
    /\ UNCHANGED <<store, managerVars, parserVars, codecVars, pureVars>>

InitStorage ==
    /\ wired = FALSE
    /\ InitManager
    /\ ParserIdle
    /\ StoreIdle
    /\ CodecIdle
    /\ PureIdle

NextStorage ==
    \/ \E id \in ImageIds, kind \in ImageKinds : StoreImage(id, kind)
    \/ \E id \in TouchedIds : GetImage(id)
    \/ \E id \in TouchedIds : RemoveImage(id)
    \/ DeleteAll
    \/ \E placement \in HarnessPlacements : SetPlacement(placement)
    \/ \E rows \in RowRanges : GetPlacementsInRange(rows)

SpecStorage == InitStorage /\ [][NextStorage]_vars


\* ------------------------------------------------------------------------
\* Placement harness: placements set and deleted on a store that holds an
\* image and an open chunk buffer
\* ------------------------------------------------------------------------

\* A placement of image 1 at a cell, two rows high, on a layer
PlacementAt(placementId, row, col, zIndex) ==
    [HarnessPlacement(placementId, row, 2) EXCEPT !.bufferCol = col, !.zIndex = zIndex]

\* Cells and layers: two in one row, two in one column, two layers
PlacedAt == { <<0, 0, 0>>, <<0, 1, -1>>, <<1, 0, 0>> }

PlacedPlacements ==
    { PlacementAt(pid, at[1], at[2], at[3]) : pid \in 1..(MaxPlacements + 1), at \in PlacedAt }

\* What the deletions name; the second of each matches nothing
DeletedKeys == { <<1, 1>>, <<1, MaxPlacements + 2>> }

DeletedCells == { <<0, 0>>, <<1, 1>> }

DeletedRows == { 1, 2 }

DeletedColumns == { 1, 2 }

DeletedLayers == { -1, 5 }

RemovePlacement(key) ==
    /\ Len(ops) < MaxOps
    /\ store' = removePlacement(store, key)
    /\ ops' = Append(ops, PlacementOp("removePlacement", key, key \in PlacementKeys(store)))
    /\ UNCHANGED <<managerVars, parserVars, codecVars, pureVars>>

DeleteAtCursor(cell) ==
    /\ Len(ops) < MaxOps
    /\ store' = deleteAtCursor(store, cell[1], cell[2])
    /\ ops' = Append(ops, PlacementOp("deleteAtCursor", cell, TRUE))
    /\ UNCHANGED <<managerVars, parserVars, codecVars, pureVars>>

DeleteRow(row) ==
    /\ Len(ops) < MaxOps
    /\ store' = deleteRow(store, row)
    /\ ops' = Append(ops, PlacementOp("deleteRow", row, TRUE))
    /\ UNCHANGED <<managerVars, parserVars, codecVars, pureVars>>

DeleteColumn(col) ==
    /\ Len(ops) < MaxOps
    /\ store' = deleteColumn(store, col)
    /\ ops' = Append(ops, PlacementOp("deleteColumn", col, TRUE))
    /\ UNCHANGED <<managerVars, parserVars, codecVars, pureVars>>

DeleteByZIndex(zIndex) ==
    /\ Len(ops) < MaxOps
    /\ store' = deleteByZIndex(store, zIndex)
    /\ ops' = Append(ops, PlacementOp("deleteByZIndex", zIndex, TRUE))
    /\ UNCHANGED <<managerVars, parserVars, codecVars, pureVars>>

\* The store after storeImage(1, ...) and addChunk(2, "AQID", 32)
StoreInUse ==
    addChunk(storeImage(EmptyStorage, 1, 100, BitmapSide, BitmapSide, SmallData, TRUE),
             2, <<"A", "Q", "I", "D">>, 32, None, None, None)

InitPlacements ==
    /\ store = StoreInUse
    /\ ops = <<>>
    /\ wired = FALSE
    /\ InitManager
    /\ ParserIdle
    /\ CodecIdle
    /\ PureIdle

NextPlacements ==
    \/ \E placement \in PlacedPlacements : SetPlacement(placement)
    \/ \E id \in {1} : RemoveImage(id)
    \/ \E key \in DeletedKeys : RemovePlacement(key)
    \/ \E cell \in DeletedCells : DeleteAtCursor(cell)
    \/ \E row \in DeletedRows : DeleteRow(row)
    \/ \E col \in DeletedColumns : DeleteColumn(col)
    \/ \E zIndex \in DeletedLayers : DeleteByZIndex(zIndex)

SpecPlacements == InitPlacements /\ [][NextPlacements]_vars


\* ------------------------------------------------------------------------
\* Codec harness: the Base64 encoder and decoders applied to the payloads
\* of a bounded set, whole and split into chunks
\* ------------------------------------------------------------------------

\* The longest payload, in bytes
MaxBytes == 4

\* The most cuts made in a payload's text
MaxCuts == 2

\* Byte values: all bits clear, all set, and two mixed patterns
ByteValues == {0, 77, 130, 255}

Payloads == UNION {[1..n -> ByteValues] : n \in 0..MaxBytes}

\* The offsets of a text that are multiples of four characters
AlignedOffsets(text) == {n \in 0..Len(text) : n % 4 = 0}

\* Cut lists: up to MaxCuts aligned offsets in order, repeats allowed
CutLists(text) ==
    {cuts \in UNION {[1..n -> AlignedOffsets(text)] : n \in 0..MaxCuts} :
        \A i \in 1..(Len(cuts) - 1) : cuts[i] <= cuts[i + 1]}

\* The chunks a sender makes of a text by cutting it at the offsets given
SplitAt(text, cuts) ==
    [i \in 1..(Len(cuts) + 1) |->
        Substring(text, IF i = 1 THEN 0 ELSE cuts[i - 1],
                        IF i > Len(cuts) THEN Len(text) ELSE cuts[i])]

Encode ==
    /\ encoded = None
    /\ encoded' = Some(bytesToBase64(payloadBytes))
    /\ UNCHANGED <<payloadBytes, decoded, pieces, combined, managerVars, parserVars, storeVars, pureVars>>

Decode ==
    /\ IsSome(encoded)
    /\ decoded = None
    /\ decoded' = Some(base64ToBytes(Get(encoded)))
    /\ UNCHANGED <<payloadBytes, encoded, pieces, combined, managerVars, parserVars, storeVars, pureVars>>

SplitPayload ==
    /\ IsSome(encoded)
    /\ pieces = None
    /\ \E cuts \in CutLists(Get(encoded)) : pieces' = Some(SplitAt(Get(encoded), cuts))
    /\ UNCHANGED <<payloadBytes, encoded, decoded, combined, managerVars, parserVars, storeVars, pureVars>>

Combine ==
    /\ IsSome(pieces)
    /\ combined = None
    /\ ~combineChunksThrows(Get(pieces))
    /\ combined' = Some(combineChunksToBytes(Get(pieces)))
    /\ UNCHANGED <<payloadBytes, encoded, decoded, pieces, managerVars, parserVars, storeVars, pureVars>>

InitCodec ==
    /\ payloadBytes \in Payloads
    /\ encoded = None
    /\ decoded = None
    /\ pieces = None
    /\ combined = None
    /\ wired = FALSE
    /\ InitManager
    /\ ParserIdle
    /\ StoreIdle
    /\ PureIdle

NextCodec ==
    \/ Encode
    \/ Decode
    \/ SplitPayload
    \/ Combine

SpecCodec == InitCodec /\ [][NextCodec]_vars


\* ------------------------------------------------------------------------
\* Properties
\* ------------------------------------------------------------------------

IsPrefix(a, b) == Len(a) <= Len(b) /\ a = SubSeq(b, 1, Len(a))

\* What call c did, in order: forwards, executions, stores, completions
EventsOf(c) ==
    SelectSeq(trace, LAMBDA e : e.call = c /\ e.type \in {"fwd", "exec", "store", "done"})

WithoutStores(events) == SelectSeq(events, LAMBDA e : e.type # "store")

\* The texts call c forwarded to the core, concatenated
ForwardedText(c) ==
    Concat([i \in 1..Len(SelectSeq(trace, LAMBDA e : e.call = c /\ e.type = "fwd")) |->
              SelectSeq(trace, LAMBDA e : e.call = c /\ e.type = "fwd")[i].text])

\* The events the commands k.. of a parse result call for when the previous
\* command ended at offset prevEnd: the text between (if any), then the
\* execution of k and its completion
RECURSIVE StreamOrder(_, _, _, _)
StreamOrder(c, result, k, prevEnd) ==
    IF k > Len(result.commands) THEN <<>>
    ELSE (IF prevEnd < result.commands[k].startIndex
          THEN <<Ev(c, "fwd", k, SubSeq(result.fullData, prevEnd + 1,
                                        result.commands[k].startIndex))>>
          ELSE <<>>)
         \o <<Ev(c, "exec", k, <<>>), Ev(c, "done", k, <<>>)>>
         \o StreamOrder(c, result, k + 1, result.commands[k].endIndex)

\* C1: in sequential mode, what a call does follows the stream: for each
\* command k in turn, exactly the text between the end of command k-1 (or
\* offset 0) and the start of command k is forwarded, then k is executed,
\* then k completes; a decoded image is stored after its command was
\* executed and before that command completes, hence before the next
\* command's text is forwarded or the next command executed.
C1_SequentialOrder ==
    \A c \in 1..Len(calls) :
        calls[c].sequential =>
            /\ IsPrefix(WithoutStores(EventsOf(c)), StreamOrder(c, calls[c].result, 1, 0))
            /\ \A i \in 1..Len(EventsOf(c)) :
                  EventsOf(c)[i].type = "store" =>
                      /\ i > 1
                      /\ EventsOf(c)[i - 1] = Ev(c, "exec", EventsOf(c)[i].k, <<>>)

\* A call stored the image of its first command, was forwarded the text
\* before its second command and executed that command
C1_Witness ==
    \E c \in 1..Len(calls) :
        /\ calls[c].sequential
        /\ \E i, j, l \in 1..Len(trace) :
              /\ i < j /\ j < l
              /\ trace[i] = Ev(c, "store", 1, <<>>)
              /\ trace[j].call = c /\ trace[j].type = "fwd" /\ trace[j].k = 2
              /\ trace[l] = Ev(c, "exec", 2, <<>>)

\* C2: in sequential mode, once a call that parsed at least one command has
\* returned, the texts it forwarded followed by the text it returned are
\* the parser's cleanedData for the call.
C2_NoTextLost ==
    \A c \in 1..Len(calls) :
        (calls[c].sequential /\ IsSome(calls[c].ret)) =>
            ForwardedText(c) \o Get(calls[c].ret) = calls[c].result.cleanedData

\* A sequential call has forwarded text and returned more text
C2_Witness ==
    \E c \in 1..Len(calls) :
        /\ calls[c].sequential
        /\ IsSome(calls[c].ret)
        /\ ForwardedText(c) # <<>>
        /\ Get(calls[c].ret) # <<>>


\* C3: a call whose parse yields no command returns the parser's cleaned
\* text, so that no character of a frame that is still incomplete is
\* returned to the caller.
C3_CleanedTextReturned ==
    \A c \in 1..Len(calls) :
        (calls[c].extracted /\ ~calls[c].result.hasGraphics /\ IsSome(calls[c].ret)) =>
            Get(calls[c].ret) = calls[c].result.cleanedData

\* C4: in sequential mode, when the parse of a call found at least one
\* command and left a partial frame pending, the returned text is the
\* literal text between the end of the last command and the partial
\* frame's start marker, and neither it nor any forwarded text holds a
\* start marker.
C4_PartialFrameWithheld ==
    \A c \in 1..Len(calls) :
        (/\ calls[c].sequential
         /\ IsSome(calls[c].ret)
         /\ calls[c].result.pendingData # <<>>) =>
            /\ Get(calls[c].ret) \o calls[c].result.pendingData
                 = SubstringFrom(calls[c].result.fullData,
                       calls[c].result.commands[Len(calls[c].result.commands)].endIndex)
            /\ ~Includes(Get(calls[c].ret), APC_START)
            /\ ~Includes(ForwardedText(c), APC_START)

\* A sequential call returned text while its parse left a frame pending
C4_Witness ==
    \E c \in 1..Len(calls) :
        /\ calls[c].sequential
        /\ IsSome(calls[c].ret)
        /\ Get(calls[c].ret) # <<>>
        /\ Len(calls[c].result.pendingData) > Len(APC_START)

\* The calls that wrote text to the core, in the order of the writes
CoreWriters ==
    [i \in 1..Len(SelectSeq(trace, LAMBDA e : e.type \in {"fwd", "core"})) |->
        SelectSeq(trace, LAMBDA e : e.type \in {"fwd", "core"})[i].call]

\* C5: chunks written through Terminal.write are processed one after
\* another: a later write executes no command and writes no text to the
\* core before every earlier write has written its returned text, so text
\* reaches the core in the order of the writes.
C5_WritesInOrder ==
    /\ \A i, j \in 1..Len(CoreWriters) : i < j => CoreWriters[i] <= CoreWriters[j]
    /\ \A j \in 1..Len(trace) :
          trace[j].type \in {"exec", "fwd", "core"} =>
              \A c \in 1..(trace[j].call - 1) :
                  \E i \in 1..(j - 1) : trace[i].call = c /\ trace[i].type = "core"


\* The positions of the frames among the segments of a chunk, in order
FramePositions(segs) ==
    SelectSeq([i \in 1..Len(segs) |-> i], LAMBDA i : segs[i].kind = "frame")

\* The literal runs of a chunk, concatenated
LiteralText(segs) == TextOf(SelectSeq(segs, LAMBDA g : g.kind = "lit"))

\* Whether a parsed command carries what the frame's descriptor says
Carries(cmd, desc) ==
    /\ cmd.action = desc.action
    /\ cmd.imageId = desc.imageId
    /\ cmd.placementId = desc.placementId
    /\ cmd.format = desc.format
    /\ cmd.more = desc.more
    /\ cmd.deleteTarget = desc.deleteTarget
    /\ OrElse(cmd.payload, <<>>) = desc.payload

\* The commands of a parse result without their offsets
CommandsOf(result) == [j \in 1..Len(result.commands) |-> result.commands[j].command]

\* A chunk fed whole, without tmux wrappers, to a parser holding nothing
FedPlain(e) == e.chunk.segs # <<>> /\ e.chunk.text = e.chunk.plain /\ e.before = <<>>

\* C6: extract on literal runs and complete frames, nothing pending:
\* cleanedData is the literal runs in order, there is one command per frame
\* in order carrying the frame's fields and payload, [startIndex, endIndex)
\* is the frame's extent in fullData, and hasGraphics holds exactly when a
\* command was parsed.
C6_ExtractComplete ==
    \A n \in 1..Len(fed) :
        FedPlain(fed[n]) =>
            LET segs == fed[n].chunk.segs
                r == fed[n].result
                at == FramePositions(segs)
            IN  /\ r.cleanedData = LiteralText(segs)
                /\ r.fullData = fed[n].chunk.text
                /\ r.pendingData = <<>>
                /\ Len(r.commands) = Len(at)
                /\ \A j \in 1..Len(at) :
                      /\ Carries(r.commands[j].command, segs[at[j]].desc)
                      /\ r.commands[j].startIndex = Len(TextOf(SubSeq(segs, 1, at[j] - 1)))
                      /\ r.commands[j].endIndex = Len(TextOf(SubSeq(segs, 1, at[j])))
                      /\ SubSeq(r.fullData, r.commands[j].startIndex + 1,
                                r.commands[j].endIndex) = segs[at[j]].text
                /\ r.hasGraphics <=> Len(r.commands) > 0

\* A chunk of three segments, two of them frames, was parsed
C6_Witness ==
    \E n \in 1..Len(fed) :
        /\ FedPlain(fed[n])
        /\ Len(fed[n].chunk.segs) = 3
        /\ Len(fed[n].result.commands) = 2
        /\ fed[n].result.cleanedData # <<>>
        /\ IsSome(fed[n].result.commands[2].command.payload)


\* The offset of the frame a text ends inside: the first start marker with
\* no end marker after it; -1 when the text ends outside any frame
UnendedStart(t) ==
    LET starts == {q \in 0..(Len(t) - Len(APC_START)) :
                      /\ Substring(t, q, q + Len(APC_START)) = APC_START
                      /\ IndexOf(t, ST, q) = -1}
    IN  IF starts = {} THEN -1 ELSE MinOf(starts)

\* A chunk without tmux wrappers, fed to a parser holding nothing, that ends
\* inside a frame whose start marker is complete
EndsInsideFrame(e) ==
    /\ e.before = <<>>
    /\ ~Includes(e.chunk.text, TMUX_PASSTHROUGH_START)
    /\ UnendedStart(e.chunk.text) # -1

\* The texts, cleaned texts and commands of the calls n..m, concatenated
TextFed(n, m) == Concat([i \in 1..(m - n + 1) |-> fed[n + i - 1].chunk.text])

CleanedFed(n, m) == Concat([i \in 1..(m - n + 1) |-> fed[n + i - 1].result.cleanedData])

CommandsFed(n, m) == Concat([i \in 1..(m - n + 1) |-> CommandsOf(fed[n + i - 1].result)])

\* C7: a chunk that ends inside a frame with a complete start marker leaves
\* the frame, from its start marker on, pending (hasPendingData), and its
\* cleanedData is that of the text before the frame; after any number of
\* further chunks the commands and the cleaned text of the calls together,
\* and what is left pending, are those of one call on the whole input.
C7_SplitFrame ==
    \A n \in 1..Len(fed) :
        EndsInsideFrame(fed[n]) =>
            /\ fed[n].result.pendingData
                 = SubstringFrom(fed[n].chunk.text, UnendedStart(fed[n].chunk.text))
            /\ fed[n].result.pendingData # <<>>
            /\ fed[n].result.cleanedData
                 = extract(<<>>, Substring(fed[n].chunk.text, 0,
                                           UnendedStart(fed[n].chunk.text))).cleanedData
            /\ ~Includes(fed[n].result.cleanedData, APC_START)
            /\ \A m \in n..Len(fed) :
                  /\ CleanedFed(n, m) = extract(<<>>, TextFed(n, m)).cleanedData
                  /\ CommandsFed(n, m) = CommandsOf(extract(<<>>, TextFed(n, m)))
                  /\ fed[m].result.pendingData = extract(<<>>, TextFed(n, m)).pendingData

\* A frame arrived in three pieces between two texts and was parsed
C7_Witness ==
    /\ Len(fed) = 3
    /\ EndsInsideFrame(fed[1])
    /\ fed[1].result.cleanedData # <<>>
    /\ fed[2].result.pendingData # <<>>
    /\ Len(fed[3].result.commands) = 1
    /\ IsSome(fed[3].result.commands[1].command.payload)
    /\ fed[3].result.cleanedData # <<>>


\* A chunk fed whole whose frames are each in a complete tmux wrapper, to a
\* parser holding nothing
FedWrapped(e) == e.chunk.segs # <<>> /\ e.chunk.text # e.chunk.plain /\ e.before = <<>>

\* C8: a chunk whose frames are wrapped in complete tmux passthrough
\* wrappers parses to the commands and the cleaned text of the same chunk
\* without the wrappers, the commands carrying what the frames say, and
\* leaves nothing pending; so a wrapped frame in each of several successive
\* calls parses in each call as the unwrapped frame does.
C8_WrappedAsPlain ==
    \A n \in 1..Len(fed) :
        FedWrapped(fed[n]) =>
            /\ CommandsOf(fed[n].result) = CommandsOf(extract(<<>>, fed[n].chunk.plain))
            /\ fed[n].result.cleanedData = extract(<<>>, fed[n].chunk.plain).cleanedData
            /\ fed[n].result.cleanedData = LiteralText(fed[n].chunk.segs)
            /\ Len(fed[n].result.commands) = Len(FramePositions(fed[n].chunk.segs))
            /\ \A j \in 1..Len(fed[n].result.commands) :
                  Carries(fed[n].result.commands[j].command,
                          fed[n].chunk.segs[FramePositions(fed[n].chunk.segs)[j]].desc)
            /\ fed[n].result.pendingData = <<>>

\* Two wrapped frames were parsed in two successive calls, the second with
\* a payload
C8_Witness ==
    /\ Len(fed) = 2
    /\ FedWrapped(fed[1])
    /\ FedWrapped(fed[2])
    /\ Len(fed[1].result.commands) = 1
    /\ Len(fed[2].result.commands) = 1
    /\ IsSome(fed[2].result.commands[1].command.payload)

\* Whether the character at position q (from 1) of t is the backslash of a
\* terminator that is not doubled: the escapes just before it are odd in
\* number
RECURSIVE EscapesBefore(_, _)
EscapesBefore(t, q) == IF q > 1 /\ t[q - 1] = ESC THEN 1 + EscapesBefore(t, q - 1) ELSE 0

UndoubledTerminatorAt(t, q) == t[q] = "\\" /\ EscapesBefore(t, q) % 2 = 1

\* A chunk, fed to a parser holding nothing, that holds the start of a tmux
\* wrapper after literal text and no terminator for it
HoldsOpenWrapper(e) ==
    /\ e.before = <<>>
    /\ Includes(e.chunk.text, TMUX_PASSTHROUGH_START)
    /\ ~Includes(Substring(e.chunk.text, 0, IndexOf(e.chunk.text, TMUX_PASSTHROUGH_START, 0)),
                 APC_START)
    /\ \A q \in (IndexOf(e.chunk.text, TMUX_PASSTHROUGH_START, 0)
                   + Len(TMUX_PASSTHROUGH_START) + 1)..Len(e.chunk.text) :
          ~UndoubledTerminatorAt(e.chunk.text, q)

\* C9: a chunk holding a tmux wrapper whose terminator has not arrived
\* yields no command, its cleanedData is the text before the wrapper's
\* start marker, and the wrapper from its start marker on is left pending
\* untouched; the next chunk, bringing the rest, yields the commands of the
\* undivided chunk.
C9_OpenWrapperBuffered ==
    \A n \in 1..Len(fed) :
        HoldsOpenWrapper(fed[n]) =>
            /\ fed[n].result.commands = <<>>
            /\ fed[n].result.cleanedData
                 = Substring(fed[n].chunk.text, 0,
                             IndexOf(fed[n].chunk.text, TMUX_PASSTHROUGH_START, 0))
            /\ fed[n].result.pendingData
                 = SubstringFrom(fed[n].chunk.text,
                                 IndexOf(fed[n].chunk.text, TMUX_PASSTHROUGH_START, 0))
            /\ (n < Len(fed) /\ TextFed(n, n + 1) = fed[n].chunk.whole) =>
                  CommandsOf(fed[n + 1].result)
                    = CommandsOf(extract(<<>>, fed[n].chunk.whole))


\* The bytes of base64 payloads, one after another
RECURSIVE BytesOfPayloads(_)
BytesOfPayloads(payloads) ==
    IF payloads = <<>> THEN <<>>
    ELSE base64ToBytes(Head(payloads)) \o BytesOfPayloads(Tail(payloads))

\* This step executes command k of call c (its handler runs up to its
\* first await)
Executes(c, k) ==
    \E i \in (Len(trace) + 1)..Len(trace') : trace'[i] = Ev(c, "exec", k, <<>>)

\* This step is the resumption of handleTransmit of call c after a
\* successful decode
Stores(c) ==
    \E i \in (Len(trace) + 1)..Len(trace') : trace'[i].call = c /\ trace'[i].type = "store"

\* A transmit command with the more flag buffers its payload after the
\* payloads already buffered for its image, makes the image pending and
\* stores no image
MoreChunkBuffered(cmd) ==
    (cmd.action \in {<<"t">>, <<"T">>} /\ cmd.more = Some(TRUE)) =>
        LET id == IF IsSome(cmd.imageId) THEN Get(cmd.imageId)
                  ELSE IF IsSome(manager.pendingChunkImageId)
                  THEN Get(manager.pendingChunkImageId)
                  ELSE manager.nextImageId
        IN  /\ storage'.images = storage.images
            /\ manager'.pendingChunkImageId = Some(id)
            /\ id \in DOMAIN storage'.chunkBuffers
            /\ storage'.chunkBuffers[id].chunks
                 = (IF id \in DOMAIN storage.chunkBuffers
                    THEN storage.chunkBuffers[id].chunks ELSE <<>>)
                   \o <<OrElse(cmd.payload, <<>>)>>

\* A transmit command without the more flag and without an image ID
\* completes the pending image: its buffer is removed, nothing is pending
\* any more, and the decode it starts (unless combining the payloads
\* throws) is for the pending ID on the bytes of the buffered payloads
\* followed by its own payload
FinalChunkCompletes(c, cmd) ==
    (/\ cmd.action \in {<<"t">>, <<"T">>}
     /\ cmd.more # Some(TRUE)
     /\ ~IsSome(cmd.imageId)
     /\ IsSome(manager.pendingChunkImageId)) =>
        /\ Get(manager.pendingChunkImageId) \notin DOMAIN storage'.chunkBuffers
        /\ manager'.pendingChunkImageId = None
        /\ storage'.images = storage.images
        /\ (/\ Get(manager.pendingChunkImageId) \in DOMAIN storage.chunkBuffers
            /\ ~calls'[c].thrown) =>
              /\ IsSome(calls'[c].decode)
              /\ Get(calls'[c].decode).imageId = Get(manager.pendingChunkImageId)
              /\ Get(calls'[c].decode).bytes
                   = BytesOfPayloads(
                       Append(storage.chunkBuffers[Get(manager.pendingChunkImageId)].chunks,
                              OrElse(cmd.payload, <<>>)))

\* After a successful decode the image is stored under the ID of the
\* decode with the decoded bytes, and no other image appears
DecodedImageStored(c) ==
    /\ Get(calls[c].decode).imageId \in DOMAIN storage'.images
    /\ Get(calls[c].decode).compression # Some(<<"z">>) =>
          storage'.images[Get(calls[c].decode).imageId].data = Get(calls[c].decode).bytes
    /\ (DOMAIN storage'.images) \ (DOMAIN storage.images) \subseteq {Get(calls[c].decode).imageId}

\* C10: a transmit command with the more flag buffers its payload and
\* stores no image; the next transmit command without the flag and without
\* an image ID completes the pending image ID: the buffer is removed and,
\* when the decode succeeds, one image is stored under that ID whose bytes
\* are those of the buffered payloads followed by the final payload.
C10_ChunkedTransfer ==
    [][\A c \in 1..Len(calls') :
          /\ \A k \in 1..Len(calls'[c].result.commands) :
                Executes(c, k) =>
                    /\ MoreChunkBuffered(calls'[c].result.commands[k].command)
                    /\ FinalChunkCompletes(c, calls'[c].result.commands[k].command)
          /\ Stores(c) => DecodedImageStored(c)]_vars

\* Image 2 was sent as a chunk with the more flag and a final chunk without
\* an ID, and is stored with the bytes of both, its buffer gone
C10_Witness ==
    /\ 2 \in DOMAIN storage.images
    /\ storage.images[2].data = <<1, 2, 3, 255>>
    /\ 2 \notin DOMAIN storage.chunkBuffers
    /\ manager.pendingChunkImageId = None
    /\ manager.nextImageId = 1


\* The open chunk buffers are one per image ID: the insertion order lists
\* each key of the Map once
OneBufferPerImage(st) ==
    /\ {st.chunkOrder[i] : i \in 1..Len(st.chunkOrder)} = DOMAIN st.chunkBuffers
    /\ \A i, j \in 1..Len(st.chunkOrder) : st.chunkOrder[i] = st.chunkOrder[j] => i = j

\* A transmit command without an image ID, executed by call c while chunk
\* buffers are open, goes to the buffer opened last: with the more flag its
\* payload is appended there, without it that buffer is taken for the decode
RoutedToLatestBuffer(c, cmd) ==
    (/\ cmd.action \in {<<"t">>, <<"T">>}
     /\ ~IsSome(cmd.imageId)
     /\ storage.chunkOrder # <<>>) =>
        LET target == storage.chunkOrder[Len(storage.chunkOrder)]
        IN  IF cmd.more = Some(TRUE)
            THEN /\ DOMAIN storage'.chunkBuffers = DOMAIN storage.chunkBuffers
                 /\ storage'.chunkBuffers[target].chunks
                      = Append(storage.chunkBuffers[target].chunks, OrElse(cmd.payload, <<>>))
            ELSE /\ DOMAIN storage'.chunkBuffers = (DOMAIN storage.chunkBuffers) \ {target}
                 /\ IsSome(calls'[c].decode)
                 /\ Get(calls'[c].decode).imageId = target

\* C11: at most one chunk buffer is open per image ID, and a transmit
\* command without an explicit image ID is routed to the most recently
\* opened chunk buffer that is still open, whatever transmit commands came
\* before it.
C11_ContinuationRouted ==
    [][/\ OneBufferPerImage(storage')
       /\ \A c \in 1..Len(calls') :
            \A k \in 1..Len(calls'[c].result.commands) :
                Executes(c, k) =>
                    RoutedToLatestBuffer(c, calls'[c].result.commands[k].command)]_vars

\* The sum of byteSize over the images with the IDs given
RECURSIVE SumByteSize(_, _)
SumByteSize(images, ids) ==
    IF ids = {} THEN 0
    ELSE LET id == CHOOSE x \in ids : TRUE
         IN  images[id].byteSize + SumByteSize(images, ids \ {id})

\* C12: after any sequence of storeImage, getImage, removeImage, deleteAll
\* and evictions, the tracked memoryUsage is exactly the sum of byteSize
\* over the images stored.
C12_MemoryTracked ==
    store.memoryUsage = SumByteSize(store.images, DOMAIN store.images)

\* Two large images were stored, the second evicting the first for memory;
\* the second was removed by a call, and an image with a bitmap was stored:
\* the total is the charge of that image alone
C12_Witness ==
    /\ Len(ops) = 4
    /\ ops[1].op = "storeImage" /\ ops[1].bytes = Len(LargeData)
    /\ ops[2].op = "storeImage" /\ ops[2].bytes = Len(LargeData) /\ ops[2].id # ops[1].id
    /\ ops[3].op = "removeImage" /\ ops[3].id = ops[2].id /\ ops[3].result
    /\ ops[4].op = "storeImage" /\ ops[4].bytes = Len(SmallData) + BitmapSide * BitmapSide * 4
    /\ store.memoryUsage = Len(SmallData) + BitmapSide * BitmapSide * 4

\* The calls so far are K+1 stores of distinct image IDs into the empty
\* store, K the image limit
FilledPastLimit ==
    /\ Len(ops) = MaxImages + 1
    /\ \A i \in 1..Len(ops) : ops[i].op = "storeImage"
    /\ \A i, j \in 1..Len(ops) : ops[i].id = ops[j].id => i = j

\* The bytes charged for the images of the first n calls
RECURSIVE BytesCharged(_)
BytesCharged(n) == IF n = 0 THEN 0 ELSE ops[n].bytes + BytesCharged(n - 1)

LastAccess(log, id) ==
    LET touches == {i \in 1..Len(log) :
                      log[i].op \in {"storeImage", "getImage"} /\ log[i].id = id}
    IN  IF touches = {} THEN 0 ELSE CHOOSE i \in touches : \A j \in touches : j <= i

\* C14: whenever storeImage evicts an image, every image it evicts was
\* last accessed (stored, or looked up by getImage) before every image it
\* leaves in the store; an image looked up after the others were stored
\* outlives them.
C14_LeastRecentlyUsedEvicted ==
    [][(Len(ops') = Len(ops) + 1 /\ ops'[Len(ops')].op = "storeImage") =>
          \A victim \in (DOMAIN store.images) \ (DOMAIN store'.images) :
              \A kept \in ((DOMAIN store.images) \cap (DOMAIN store'.images))
                            \ {ops'[Len(ops')].id} :
                  LastAccess(ops, victim) < LastAccess(ops, kept)]_vars

\* Images 1 and 2 were stored, image 1 was looked up, and the store of
\* image 3 evicted image 2, the oldest one not touched since
C14_Witness ==
    /\ Len(ops) = 4
    /\ ops[1].op = "storeImage" /\ ops[1].id = 1
    /\ ops[2].op = "storeImage" /\ ops[2].id = 2
    /\ ops[3].op = "getImage" /\ ops[3].id = 1 /\ ops[3].result
    /\ ops[4].op = "storeImage" /\ ops[4].id = 3
    /\ DOMAIN store.images = {1, 3}

\* C15: after every storeImage call the tracked memoryUsage does not exceed
\* maxCacheMemory, except when the image just stored is the only image in
\* the store.
C15_BudgetEnforced ==
    (ops # <<>> /\ ops[Len(ops)].op = "storeImage") =>
        \/ store.memoryUsage <= MaxCacheMemory
        \/ DOMAIN store.images = {ops[Len(ops)].id}

\* Every placement of the store is of an image the store holds
PlacementsHaveImages(st) ==
    \A i \in 1..Len(st.placements) : st.placements[i].imageId \in DOMAIN st.images

\* The placements of an image
PlacementsOf(st, id) == SelectSeq(st.placements, LAMBDA p : p.imageId = id)

\* The store of a decoded image by call c leaves no earlier placement of
\* that image ID: at most the one placement the same command creates
StoreDropsPlacements(c) ==
    Len(PlacementsOf(storage', Get(calls[c].decode).imageId))
      <= (IF Get(calls[c].decode).display /\ ~wired THEN 1 ELSE 0)

\* A delete of an image that is not stored leaves the store as it was
AbsentImageUntouched(cmd) ==
    (/\ cmd.action = <<"d">>
     /\ cmd.deleteTarget \in {Some(<<"i">>), Some(<<"I">>)}
     /\ IsSome(cmd.imageId)
     /\ Get(cmd.imageId) \notin DOMAIN storage.images) =>
        /\ storage' = storage
        /\ ~removeImageReturns(storage, Get(cmd.imageId))

\* C16: after any sequence of transmit, put and delete commands and LRU
\* evictions, every placement in the store is of an image that is stored:
\* removing, replacing (a store under the same ID) or evicting an image
\* removes every placement of it, and removing an image ID that is not
\* stored returns false and changes nothing.
C16_PlacementsFollowImages ==
    [][/\ PlacementsHaveImages(storage')
       /\ \A c \in 1..Len(calls') :
            /\ Stores(c) => StoreDropsPlacements(c)
            /\ \A k \in 1..Len(calls'[c].result.commands) :
                  Executes(c, k) =>
                      AbsentImageUntouched(calls'[c].result.commands[k].command)]_vars

\* On a manager without callbacks a displayed PNG was stored as image 1
\* and placed; a later transmit stored image 1 again, which removed that
\* placement, and a put placed the new image under placement ID 3
C16_Witness ==
    /\ ~wired
    /\ Len(calls) = 2
    /\ calls[1].chunk = <<"a">> \o PngFrame \o <<"b">>
    /\ \E i \in 1..Len(trace) : trace[i].call = 1 /\ trace[i].type = "store"
    /\ DOMAIN storage.images = {1}
    /\ storage.images[1].format = 32
    /\ PlacementKeys(storage) = {<<1, 3>>}

\* The rows a placement occupies
RowSpan(p) == p.bufferRow..(p.bufferRow + p.displayHeight - 1)

\* The placements of the store whose rows meet the rows asked for
PlacementsMeeting(st, rows) ==
    {p \in {st.placements[i] : i \in 1..Len(st.placements)} :
        RowSpan(p) \cap (rows[1]..rows[2]) # {}}

\* C17: getPlacementsInRange(startRow, endRow) returns exactly the
\* placements whose row span [bufferRow, bufferRow + displayHeight - 1]
\* meets [startRow, endRow], each once, a placement that starts above
\* startRow and reaches into the range included, and changes nothing in
\* the store.
C17_RangeQuery ==
    [][(Len(ops') = Len(ops) + 1 /\ ops'[Len(ops')].op = "getPlacementsInRange") =>
          LET result == ops'[Len(ops')].result
          IN  /\ {result[i] : i \in 1..Len(result)}
                   = PlacementsMeeting(store, ops'[Len(ops')].rows)
              /\ \A i, j \in 1..Len(result) : result[i] = result[j] => i = j
              /\ store' = store]_vars

\* Rows 1 to 2 were asked for with two placements set: the answer has the
\* placement of rows 0 to 2, which starts above the range, and the
\* placement of row 2
C17_Witness ==
    /\ ops # <<>>
    /\ ops[Len(ops)].op = "getPlacementsInRange"
    /\ ops[Len(ops)].rows = <<1, 2>>
    /\ Len(ops[Len(ops)].result) = 2
    /\ \E i \in 1..2 : /\ ops[Len(ops)].result[i].bufferRow = 0
                       /\ ops[Len(ops)].result[i].displayHeight = 3
    /\ \E i \in 1..2 : ops[Len(ops)].result[i].bufferRow = 2

\* The keys a put command may give its placement: its placement ID, or
\* one made from the clock
PutKeys(cmd) ==
    {<<Get(cmd.imageId), pid>> :
        pid \in (IF IsSome(cmd.placementId) THEN {Get(cmd.placementId)} ELSE NowValues)}

\* A put command executed by call c: without an ID of a stored image it
\* fails and leaves the store alone; with one it places the image under
\* its key, decodes nothing and leaves the images and the total alone
PutPlacesStoredImage(c, cmd) ==
    cmd.action = <<"p">> =>
        IF ~IsSome(cmd.imageId) \/ ~hasImage(storage, Get(cmd.imageId))
        THEN /\ storage' = storage
             /\ IsSome(handlePutResponse(World, cmd))
             /\ ~Get(handlePutResponse(World, cmd)).ok
        ELSE /\ storage'.images = storage.images
             /\ storage'.memoryUsage = storage.memoryUsage
             /\ calls'[c].decode = None
             /\ \E key \in PutKeys(cmd) :
                  /\ key \in PlacementKeys(storage')
                  /\ getPlacement(storage', key).imageId = Get(cmd.imageId)
                  /\ PlacementKeys(storage') \ PlacementKeys(storage) \subseteq {key}

\* C18: a put command creates a placement only if it carries the ID of a
\* stored image; otherwise it issues a failure and leaves placements, images
\* and memoryUsage unchanged.  A successful put adds or replaces exactly the
\* placement keyed imageId:placementId, decodes nothing and changes neither
\* the images nor memoryUsage.
C18_PutNeedsStoredImage ==
    [][\A c \in 1..Len(calls') :
          \A k \in 1..Len(calls'[c].result.commands) :
              Executes(c, k) =>
                  PutPlacesStoredImage(c, calls'[c].result.commands[k].command)]_vars

\* A raw image was stored as image 1 and the put command after it in the
\* same chunk placed it under placement ID 3
C18_Witness ==
    /\ Len(calls) = 1
    /\ calls[1].chunk = <<"a">> \o RawFrame \o <<"b">> \o PutFrame \o <<"c">>
    /\ \E i \in 1..Len(trace) : trace[i] = Ev(1, "done", 2, <<>>)
    /\ 1 \in DOMAIN storage.images
    /\ <<1, 3>> \in PlacementKeys(storage)

\* A transmit command without the more flag, with an empty payload and no
\* chunks buffered for its image, executed by call c: it hands a no-data
\* failure to sendResponse, starts no decode and leaves images, placements
\* and the total alone
NoDataFails(c, cmd) ==
    (/\ cmd.action \in {<<"t">>, <<"T">>}
     /\ cmd.more # Some(TRUE)
     /\ OrElse(cmd.payload, <<>>) = <<>>
     /\ ResolveImageId(manager, cmd) \notin DOMAIN storage.chunkBuffers) =>
        /\ handleTransmitResponse(World, cmd) = Some([ok |-> FALSE, message |-> "no data"])
        /\ calls'[c].decode = None
        /\ storage'.images = storage.images
        /\ storage'.placements = storage.placements
        /\ storage'.memoryUsage = storage.memoryUsage

\* C19: a transmit command without the more flag, with an empty payload
\* and no accumulated chunk data for its image ID, produces a no-data
\* failure, attempts no decode, and leaves images, placements and
\* memoryUsage unchanged.
C19_NoDataFailure ==
    [][\A c \in 1..Len(calls') :
          \A k \in 1..Len(calls'[c].result.commands) :
              Executes(c, k) => NoDataFails(c, calls'[c].result.commands[k].command)]_vars

\* After an image was stored as image 1, a transmit command for image 1
\* with an empty payload has run to its end, and the image is still there
C19_Witness ==
    /\ Len(calls) = 2
    /\ 1 \in DOMAIN storage.images
    /\ calls[2].chunk = PutNoIdFrame \o <<"u">> \o EmptyFrame
    /\ calls[2].result.commands[2].command.payload = None
    /\ \E i \in 1..Len(trace) : trace[i] = Ev(2, "done", 2, <<>>)
    /\ calls[2].outcome = None

\* This step is the resumption of handleTransmit of call c after a decode
\* that failed
DecodeFailed(c) ==
    /\ microQ # <<>>
    /\ Head(microQ) = Job(c, "ht")
    /\ ~Get(calls[c].outcome).ok
    /\ microQ' = Append(Tail(microQ), Job(c, "hc"))

\* A transmit command changes neither images nor placements nor the total
\* before its decode has settled
TransmitStoresLater(cmd) ==
    cmd.action \in {<<"t">>, <<"T">>} =>
        /\ storage'.images = storage.images
        /\ storage'.placements = storage.placements
        /\ storage'.memoryUsage = storage.memoryUsage

\* C20: when the decode of a transmit command fails (unsupported format,
\* raw format without width and height, no decompression, bitmap error),
\* no image is inserted, no placement is created, memoryUsage is unchanged,
\* an image stored before under the same ID is still present, and no chunk
\* buffer of that ID remains open.
C20_FailedDecodeLeavesStore ==
    [][\A c \in 1..Len(calls') :
          /\ \A k \in 1..Len(calls'[c].result.commands) :
                Executes(c, k) =>
                    TransmitStoresLater(calls'[c].result.commands[k].command)
          /\ (c <= Len(calls) /\ DecodeFailed(c)) =>
                /\ storage' = storage
                /\ shown' = shown
                /\ Get(calls[c].decode).imageId \notin DOMAIN storage'.chunkBuffers]_vars

\* Image 1 was stored by the first call; the decode of a second transmit
\* of image 1 failed, and the image of the first call is still stored
C20_Witness ==
    /\ Len(calls) = 2
    /\ \E i \in 1..Len(trace) : trace[i].call = 1 /\ trace[i].type = "store"
    /\ calls[2].chunk = RawFrame \o FinalFrame
    /\ calls[2].k = 1
    /\ \E i \in 1..Len(trace) : trace[i] = Ev(2, "done", 1, <<>>)
    /\ \A i \in 1..Len(trace) : ~(trace[i].call = 2 /\ trace[i].type = "store")
    /\ 1 \in DOMAIN storage.images
    /\ 1 \notin DOMAIN storage.chunkBuffers

\* The literal text of a parse result as the sequential loop hands it on:
\* the text before each command, then the text remaining after the last
TextHandedOn(result) ==
    Concat([k \in 1..Len(result.commands) |->
              Substring(result.fullData,
                        IF k = 1 THEN 0 ELSE result.commands[k - 1].endIndex,
                        result.commands[k].startIndex)])
    \o Remaining(result.fullData, result.commands[Len(result.commands)].endIndex,
                 result.pendingData # <<>>)

\* Call c has settled: its caller has resumed, with the text or an exception
Settled(c) == calls[c].pc \in {"done", "failed"}

\* Every command of call c has been handed to its handler
AllExecuted(c) ==
    \A k \in 1..Len(calls[c].result.commands) :
        \E i \in 1..Len(trace) : trace[i] = Ev(c, "exec", k, <<>>)

\* C21: a settled call whose parse found commands has resolved, not
\* rejected; every one of its commands was executed, whatever the outcome
\* of the commands before; and the text it forwarded and returned is the
\* literal text of the parse result (sequential mode) or the cleaned text
\* (fallback), which no command outcome enters.
C21_FailureNeverBlocksText ==
    \A c \in 1..Len(calls) :
        (Settled(c) /\ calls[c].extracted /\ calls[c].result.commands # <<>>) =>
            /\ calls[c].pc = "done"
            /\ IsSome(calls[c].ret)
            /\ AllExecuted(c)
            /\ IF calls[c].sequential
               THEN ForwardedText(c) \o Get(calls[c].ret) = TextHandedOn(calls[c].result)
               ELSE Get(calls[c].ret) = calls[c].result.cleanedData

\* Call c has settled and one of its commands had the action given
Handled(c, action) ==
    /\ Settled(c)
    /\ \E k \in 1..Len(calls[c].result.commands) :
          /\ calls[c].result.commands[k].command.action = <<action>>
          /\ \E i \in 1..Len(trace) : trace[i] = Ev(c, "exec", k, <<>>)

\* C22: whatever commands have been handled, the callback registered with
\* setResponseCallback has never been invoked: no response has been passed
\* on to the application.
C22_ResponsesSuppressed == responses = <<>>

\* A query, a transmit and a put (failing ones among them) have been handled
C22_Witness ==
    /\ responses = <<>>
    /\ \E c \in 1..Len(calls) : Handled(c, "q")
    /\ \E c \in 1..Len(calls) : Handled(c, "p") /\ Handled(c, "t")

\* C23: decoding the Base64 text of a byte sequence gives the byte sequence
\* back, for every payload of up to MaxBytes bytes, the lengths that end in
\* one and in two padding characters included.
C23_Base64RoundTrip ==
    (IsSome(encoded) /\ IsSome(decoded)) =>
        /\ ~base64Throws(Get(encoded))
        /\ Get(decoded) = payloadBytes

\* A payload of four bytes (a full group and a group with two padding
\* characters) has made the round trip
C23_Witness ==
    /\ Len(payloadBytes) = 4
    /\ IsSome(encoded)
    /\ SubSeq(Get(encoded), 7, 8) = <<"=", "=">>
    /\ decoded = Some(payloadBytes)

\* A payload of two bytes, whose text ends in one padding character, has
\* made the round trip
C23_WitnessOnePad ==
    /\ Len(payloadBytes) = 2
    /\ IsSome(encoded)
    /\ SubSeq(Get(encoded), 3, 4) # <<"=", "=">>
    /\ Get(encoded)[4] = "="
    /\ decoded = Some(payloadBytes)

\* C24: the chunks of a Base64 text cut at any aligned offsets, empty
\* chunks among them, combine to the bytes the whole text decodes to.
C24_AlignedChunksCombine ==
    (IsSome(pieces) /\ IsSome(combined)) =>
        Get(combined) = base64ToBytes(Get(encoded))

\* A text cut into an empty chunk followed by two non-empty ones has been combined
C24_Witness ==
    /\ IsSome(combined)
    /\ IsSome(pieces)
    /\ Len(Get(pieces)) = 3
    /\ Get(pieces)[1] = <<>>
    /\ Get(pieces)[2] # <<>>
    /\ Get(pieces)[3] # <<>>
    /\ Get(combined) = payloadBytes

\* ------------------------------------------------------------------------
\* Control-data harness: frames built from the protocol's key table are
\* parsed by a fresh KittyParser
\* ------------------------------------------------------------------------

\* The most pairs in a control section
MaxPairs == 3

\* A pair key=text of a control section, the command field the key is for
\* and the value the text stands for.  An entry with an empty key is a pair
\* that lacks its = or its key.
Pair(key, field, text, value) == [key |-> key, field |-> field, text |-> text, value |-> value]

NumPair(key, field, n) == Pair(key, field, IntToDigits(n), Some(n))

KeyTable ==
    << Pair("a", "action", <<"p">>, <<"p">>),
       Pair("a", "action", <<"d">>, <<"d">>),
       NumPair("i", "imageId", 42),
       NumPair("I", "imageNumber", 3),
       NumPair("p", "placementId", 7),
       NumPair("f", "format", 100),
       Pair("t", "transmission", <<"d">>, Some(<<"d">>)),
       Pair("o", "compression", <<"z">>, Some(<<"z">>)),
       Pair("m", "more", <<"1">>, Some(TRUE)),
       Pair("m", "more", <<"0">>, Some(FALSE)),
       NumPair("s", "width", 10),
       NumPair("v", "height", 20),
       NumPair("c", "displayWidth", 2),
       NumPair("r", "displayHeight", 3),
       NumPair("X", "cellX", 4),
       NumPair("Y", "cellY", 5),
       NumPair("x", "offsetX", 6),
       NumPair("y", "offsetY", 8),
       Pair("z", "zIndex", <<"-", "1">>, Some(-1)),
       NumPair("C", "cursorMovement", 0),
       NumPair("q", "quiet", 2),
       Pair("d", "deleteTarget", <<"a">>, Some(<<"a">>)),
       Pair("", "", <<"j", "u", "n", "k">>, None),
       Pair("", "", <<"=", "5">>, None) >>

WellFormed(n) == KeyTable[n].key # ""

PairText(n) ==
    IF WellFormed(n) THEN <<KeyTable[n].key, "=">> \o KeyTable[n].text ELSE KeyTable[n].text

\* The control section made of the pairs numbered ns, separated by commas
RECURSIVE ControlText(_)
ControlText(ns) ==
    IF ns = <<>> THEN <<>>
    ELSE IF Len(ns) = 1 THEN PairText(ns[1])
    ELSE PairText(ns[1]) \o <<",">> \o ControlText(Tail(ns))

\* Control sections of up to MaxPairs pairs in which no key and no
\* malformed pair comes twice
PairLists ==
    {ns \in UNION {[1..n -> 1..Len(KeyTable)] : n \in 0..MaxPairs} :
        \A i, j \in 1..Len(ns) :
            i < j => /\ ns[i] # ns[j]
                     /\ WellFormed(ns[i]) => KeyTable[ns[i]].key # KeyTable[ns[j]].key}

FramePayloads == {<<>>, <<"A", "Q", "=", "=">>}

\* parser.extract(frame) on a parser with nothing pending
ParseFrame ==
    /\ IsSome(argument)
    /\ returned = None
    /\ returned' = Some(extract(<<>>, Frame(ControlText(Get(argument).pairs),
                                            Get(argument).payload)))
    /\ UNCHANGED <<argument, managerVars, parserVars, storeVars, codecVars>>

InitControl ==
    /\ argument \in {Some([pairs |-> ns, payload |-> payload]) :
                        ns \in PairLists, payload \in FramePayloads}
    /\ returned = None
    /\ wired = FALSE
    /\ InitManager
    /\ ParserIdle
    /\ StoreIdle
    /\ CodecIdle

NextControl == ParseFrame

SpecControl == InitControl /\ [][NextControl]_vars

\* The pairs without the malformed ones
WellFormedOnly(ns) == SelectSeq(ns, WellFormed)

\* C25: the frame parses to one command; every key of the key table in
\* its control section is in the command with the value its text stands
\* for; without a pair for `a` the action is T; and the pairs that lack
\* their = change nothing: the command is the one the frame without them
\* parses to.
C25_KeysRecovered ==
    IsSome(returned) =>
        LET ns == Get(argument).pairs
            result == Get(returned)
        IN  /\ Len(result.commands) = 1
            /\ \A i \in 1..Len(ns) :
                  WellFormed(ns[i]) =>
                      result.commands[1].command[KeyTable[ns[i]].field] = KeyTable[ns[i]].value
            /\ (\A i \in 1..Len(ns) : KeyTable[ns[i]].key # "a") =>
                  result.commands[1].command.action = <<"T">>
            /\ result.commands[1].command =
                  extract(<<>>, Frame(ControlText(WellFormedOnly(ns)),
                                      Get(argument).payload)).commands[1].command

\* A frame with a pair lacking its = between two keys, one of them with
\* the value 0, and without `a`, has been parsed
C25_Witness ==
    /\ IsSome(returned)
    /\ Len(Get(argument).pairs) = 3
    /\ KeyTable[Get(argument).pairs[1]].key = "C"
    /\ ~WellFormed(Get(argument).pairs[2])
    /\ KeyTable[Get(argument).pairs[3]].key = "z"
    /\ Get(returned).commands[1].command.cursorMovement = Some(0)
    /\ Get(returned).commands[1].command.zIndex = Some(-1)
    /\ Get(returned).commands[1].command.action = <<"T">>

\* ------------------------------------------------------------------------
\* Strip harness: stripEchoedResponses applied to text with echoed
\* responses embedded
\* ------------------------------------------------------------------------

\* The most segments of a text
MaxStripSegs == 3

\* Echoed bare responses: i=4;OK  i=12,p=3;OK  i=5;ENOENT:x
EchoedResponses ==
    { <<"i", "=", "4", ";", "O", "K">>,
      <<"i", "=", "1", "2", ",", "p", "=", "3", ";", "O", "K">>,
      <<"i", "=", "5", ";", "E", "N", "O", "E", "N", "T", ":", "x">> }

\* Text around them, a response with a non-numeric ID among it
PlainTexts ==
    { <<"x", " ", "y">>,
      <<"i", "=", "f", "o", "u", "r", ";", "O", "K">>,
      <<"i", "=">>,
      <<"7">>,
      <<" ", "z">> }

StripSegments ==
    {[kind |-> "response", text |-> t] : t \in EchoedResponses}
    \cup {[kind |-> "text", text |-> t] : t \in PlainTexts}

\* The reason of an ENOENT response runs up to the next whitespace
OpenEnded(seg) == seg.kind = "response" /\ seg.text[Len(seg.text)] # "K"

\* Texts of up to MaxStripSegs segments, an ENOENT response being followed
\* by whitespace or by nothing
StripInputs ==
    {segs \in UNION {[1..n -> StripSegments] : n \in 0..MaxStripSegs} :
        \A i \in 1..(Len(segs) - 1) :
            OpenEnded(segs[i]) => segs[i + 1].text[1] \in Whitespace}

SegmentsText(segs) == Concat([i \in 1..Len(segs) |-> segs[i].text])

\* KittyParser.stripEchoedResponses(data)
StripText ==
    /\ IsSome(argument)
    /\ returned = None
    /\ returned' = Some(stripEchoedResponses(SegmentsText(Get(argument))))
    /\ UNCHANGED <<argument, managerVars, parserVars, storeVars, codecVars>>

InitStrip ==
    /\ argument \in {Some(segs) : segs \in StripInputs}
    /\ returned = None
    /\ wired = FALSE
    /\ InitManager
    /\ ParserIdle
    /\ StoreIdle
    /\ CodecIdle

NextStrip == StripText

SpecStrip == InitStrip /\ [][NextStrip]_vars

\* C26: what stripEchoedResponses returns is the text around the echoed
\* responses, every response taken out and every other character kept,
\* the response-like text with a non-numeric ID included.
C26_EchoedResponsesStripped ==
    IsSome(returned) =>
        Get(returned) = SegmentsText(SelectSeq(Get(argument), LAMBDA g : g.kind = "text"))

\* A text with two responses around i=four;OK has been stripped to i=four;OK
C26_Witness ==
    /\ IsSome(returned)
    /\ Len(Get(argument)) = 3
    /\ Get(argument)[1].kind = "response"
    /\ Get(argument)[2].text = <<"i", "=", "f", "o", "u", "r", ";", "O", "K">>
    /\ Get(argument)[3].kind = "response"
    /\ Get(returned) = <<"i", "=", "f", "o", "u", "r", ";", "O", "K">>

\* What a transmit command of a transfer under way declares takes effect:
\* a chunk with the more flag leaves it in the buffer, the final chunk
\* decodes with it, and what the final chunk leaves out comes from the buffer
DeclarationsTakeEffect(c, cmd, fields) ==
    (/\ cmd.action \in {<<"t">>, <<"T">>}
     /\ hasChunkBuffer(storage, ResolveImageId(manager, cmd))) =>
        IF cmd.more = Some(TRUE)
        THEN \A f \in fields :
                IsSome(cmd[f]) =>
                    storage'.chunkBuffers[ResolveImageId(manager, cmd)][f] =
                        IF f = "format" THEN Get(cmd[f]) ELSE cmd[f]
        ELSE IsSome(calls'[c].decode) =>
                \A f \in fields :
                    Get(calls'[c].decode)[f] =
                        IF IsSome(cmd[f])
                        THEN (IF f = "format" THEN Get(cmd[f]) ELSE cmd[f])
                        ELSE storage.chunkBuffers[ResolveImageId(manager, cmd)][f]

\* C27: in a chunked transfer the format, width, height and compression a
\* later chunk declares (a further chunk with the more flag, or the final
\* chunk) are the ones the final decode uses.
C27_LateDeclarationsTakeEffect ==
    [][\A c \in 1..Len(calls') :
          \A k \in 1..Len(calls'[c].result.commands) :
              Executes(c, k) =>
                  DeclarationsTakeEffect(c, calls'[c].result.commands[k].command,
                                         {"format", "width", "height", "compression"})]_vars

\* The same for width, height and compression alone
LateSizeTakesEffect ==
    [][\A c \in 1..Len(calls') :
          \A k \in 1..Len(calls'[c].result.commands) :
              Executes(c, k) =>
                  DeclarationsTakeEffect(c, calls'[c].result.commands[k].command,
                                         {"width", "height", "compression"})]_vars

\* This step is the call `name` on the store under test
Calls(name) == Len(ops') = Len(ops) + 1 /\ ops'[Len(ops')].op = name

\* The argument of the call this step makes
Arg == ops'[Len(ops')].arg

\* The placements without the one under a key
PlacementsBut(placements, key) == SelectSeq(placements, LAMBDA p : p.id # key)

\* C28: setPlacement leaves at most maxPlacements placements; under a key
\* already placed it replaces that placement and evicts no other; under a
\* new key with the store at its cap it evicts the placement set first and
\* no other; below the cap it evicts nothing.
C28_PlacementCap ==
    [][Calls("setPlacement") =>
          /\ Len(store'.placements) <= MaxPlacements
          /\ store'.placements =
                IF Arg.id \in PlacementKeys(store)
                THEN Append(PlacementsBut(store.placements, Arg.id), Arg)
                ELSE IF Len(store.placements) >= MaxPlacements
                THEN Append(Tail(store.placements), Arg)
                ELSE Append(store.placements, Arg)]_vars

\* The store is at its cap and the placement set last has displaced the one
\* set first
C28_Witness ==
    /\ Len(ops) = 3
    /\ \A i \in 1..3 : ops[i].op = "setPlacement"
    /\ ops[1].arg.id # ops[2].arg.id
    /\ ops[3].arg.id \notin {ops[1].arg.id, ops[2].arg.id}
    /\ store.placements = <<ops[2].arg, ops[3].arg>>

PlacementDeletions ==
    {"removePlacement", "deleteAtCursor", "deleteRow", "deleteColumn", "deleteByZIndex"}

\* Whether placement p meets the criterion of a deletion: its key, its
\* start row and column, its start row, its start column, its z-index
MeetsCriterion(name, arg, p) ==
    CASE name = "removePlacement" -> p.id = arg
      [] name = "deleteAtCursor" -> p.bufferRow = arg[1] /\ p.bufferCol = arg[2]
      [] name = "deleteRow" -> p.bufferRow = arg
      [] name = "deleteColumn" -> p.bufferCol = arg
      [] name = "deleteByZIndex" -> p.zIndex = arg

\* The row index of a store lists, under each start row, the keys of the
\* placements that start there
RowIndexed(st) ==
    /\ DOMAIN st.placementsByRow = {st.placements[i].bufferRow : i \in 1..Len(st.placements)}
    /\ \A row \in DOMAIN st.placementsByRow :
          st.placementsByRow[row] =
              {st.placements[i].id : i \in {j \in 1..Len(st.placements) :
                                               st.placements[j].bufferRow = row}}

\* C29: a placement-level deletion removes the placements that meet its
\* criterion and no other, keeps the rest in order, and leaves the images,
\* memoryUsage, the LRU order and the chunk buffers as they were; when no
\* placement meets the criterion the store is unchanged.
C29_PlacementDeletions ==
    [][\A name \in PlacementDeletions :
          Calls(name) =>
              /\ store'.placements =
                    SelectSeq(store.placements, LAMBDA p : ~MeetsCriterion(name, Arg, p))
              /\ RowIndexed(store')
              /\ store'.images = store.images
              /\ store'.memoryUsage = store.memoryUsage
              /\ store'.accessOrder = store.accessOrder
              /\ store'.chunkBuffers = store.chunkBuffers
              /\ store'.chunkOrder = store.chunkOrder
              /\ (\A i \in 1..Len(store.placements) :
                     ~MeetsCriterion(name, Arg, store.placements[i])) => store' = store]_vars

\* deleteRow(1) has removed the placement starting in row 1 and kept the one
\* that starts in row 0 and covers row 1; the image and the chunk buffer
\* are in the store
C29_Witness ==
    /\ Len(ops) = 3
    /\ ops[1].op = "setPlacement" /\ ops[1].arg.bufferRow = 0
    /\ ops[2].op = "setPlacement" /\ ops[2].arg.bufferRow = 1
    /\ ops[3].op = "deleteRow" /\ ops[3].arg = 1
    /\ store.placements = <<ops[1].arg>>
    /\ hasImage(store, 1)
    /\ store.memoryUsage > 0
    /\ hasChunkBuffer(store, 2)

\* This step is GraphicsManager.clear()
Clears == Len(trace') = Len(trace) + 1 /\ trace'[Len(trace')].type = "clear"

\* This step executes a delete command with target a, A or none
DeletesAll ==
    \E c \in 1..Len(calls') :
        \E k \in 1..Len(calls'[c].result.commands) :
            /\ Executes(c, k)
            /\ calls'[c].result.commands[k].command.action = <<"d">>
            /\ OrElse(calls'[c].result.commands[k].command.deleteTarget, <<"a">>)
                   \in {<<"a">>, <<"A">>}

NoGraphics ==
    [ imageCount |-> 0, placementCount |-> 0, memoryUsage |-> 0,
      maxMemory |-> MaxCacheMemory, chunkBuffers |-> 0 ]

DeleteCommandEmptiedStore ==
    /\ Len(calls) = 2
    /\ calls[1].chunk = <<"a">> \o RawFrame \o <<"b">> \o PutFrame \o <<"c">>
    /\ \E i \in 1..Len(trace) : trace[i].type = "store"
    /\ \E k \in 1..Len(calls[2].result.commands) :
          /\ calls[2].result.commands[k].command.action = <<"d">>
          /\ \E i \in 1..Len(trace) : trace[i] = Ev(2, "done", k, <<>>)
    /\ getStats(storage) = NoGraphics

\* ------------------------------------------------------------------------
\* GraphicsRenderer
\*
\* A render context is reduced to scrollTop and viewportRows; a pass returns
\* the placements handed to ctx.drawImage, in the order of the calls.
\* ------------------------------------------------------------------------

\* p.zIndex < 0, false for NaN
BelowText(p) == p.zIndex # NaN /\ p.zIndex < 0

\* p.zIndex >= 0, false for NaN
AboveText(p) == p.zIndex # NaN /\ p.zIndex >= 0

\* Array.prototype.sort((a, b) => a.zIndex - b.zIndex): a stable insertion
RECURSIVE InsertByZIndex(_, _)
InsertByZIndex(sorted, p) ==
    IF sorted = <<>> THEN <<p>>
    ELSE IF sorted[Len(sorted)].zIndex - p.zIndex > 0
    THEN Append(InsertByZIndex(SubSeq(sorted, 1, Len(sorted) - 1), p), sorted[Len(sorted)])
    ELSE Append(sorted, p)

RECURSIVE SortByZIndex(_)
SortByZIndex(placements) ==
    IF placements = <<>> THEN <<>>
    ELSE InsertByZIndex(SortByZIndex(SubSeq(placements, 1, Len(placements) - 1)),
                        placements[Len(placements)])

\* renderPlacement: drawImage is called only for an image with a bitmap
Draws(placements) == SelectSeq(placements, LAMBDA p : p.image.bitmap)

\* renderPlacements with the filter of the pass
renderBelowText(st, scrollTop, viewportRows) ==
    Draws(SortByZIndex(SelectSeq(getPlacementsInRange(st, scrollTop, scrollTop + viewportRows),
                                 BelowText)))

renderAboveText(st, scrollTop, viewportRows) ==
    Draws(SortByZIndex(SelectSeq(getPlacementsInRange(st, scrollTop, scrollTop + viewportRows),
                                 AboveText)))

\* ------------------------------------------------------------------------
\* Renderer harness: placements created on a store that holds an image with
\* a bitmap and one without, and the two render passes run on it
\* ------------------------------------------------------------------------

\* Image 2 has no bitmap, image 1 has one
StoreToRender ==
    storeImage(storeImage(EmptyStorage, 2, 100, BitmapSide, BitmapSide, SmallData, FALSE),
               1, 100, BitmapSide, BitmapSide, SmallData, TRUE)

\* The keys placed: two placements of image 1, one of image 2
RenderedKeys == { <<1, 1>>, <<1, 2>>, <<2, 1>> }

\* The z values of the control data, the last one not a number
LayerTexts == { <<"-", "2">>, <<"-", "1">>, <<"0">>, <<"3">>, <<"x">> }

\* Cursor row and the rows (r) asked for, none for the default
RowsPlaced == { <<0, <<>> >>, <<0, <<"2">> >>, <<3, <<>> >> }

\* The control data of a put: p=<pid>,z=<z>[,r=<rows>]
PutControl(placementId, z, rows) ==
    <<"p", "=">> \o IntToDigits(placementId) \o <<",", "z", "=">> \o z
        \o (IF rows = <<>> THEN <<>> ELSE <<",", "r", "=">> \o rows)

\* scrollTop and viewportRows of the render contexts
RenderContexts == { <<0, 2>>, <<1, 2>> }

\* createPlacement on the store under test
CreatePlacement(key, z, at) ==
    /\ store' = createPlacement([storage |-> store, manager |-> [needsRender |-> FALSE]],
                                paramsToCommand(parseControlData(PutControl(key[2], z, at[2])),
                                                <<>>),
                                key[1], [row |-> at[1], col |-> 0], 0).storage
    /\ argument' = None
    /\ returned' = None
    /\ UNCHANGED <<ops, managerVars, parserVars, codecVars>>

RenderBelowText(ctx) ==
    /\ argument' = Some(<<"renderBelowText", ctx[1], ctx[2]>>)
    /\ returned' = Some(renderBelowText(store, ctx[1], ctx[2]))
    /\ UNCHANGED <<storeVars, managerVars, parserVars, codecVars>>

RenderAboveText(ctx) ==
    /\ argument' = Some(<<"renderAboveText", ctx[1], ctx[2]>>)
    /\ returned' = Some(renderAboveText(store, ctx[1], ctx[2]))
    /\ UNCHANGED <<storeVars, managerVars, parserVars, codecVars>>

InitRender ==
    /\ store = StoreToRender
    /\ ops = <<>>
    /\ wired = FALSE
    /\ InitManager
    /\ ParserIdle
    /\ CodecIdle
    /\ PureIdle

NextRender ==
    \/ \E key \in RenderedKeys, z \in LayerTexts, at \in RowsPlaced : CreatePlacement(key, z, at)
    \/ \E ctx \in RenderContexts : RenderBelowText(ctx)
    \/ \E ctx \in RenderContexts : RenderAboveText(ctx)

SpecRender == InitRender /\ [][NextRender]_vars

\* ------------------------------------------------------------------------
\* Properties of the renderer
\* ------------------------------------------------------------------------

\* The elements of a sequence
Range(seq) == { seq[i] : i \in DOMAIN seq }

\* The in-range placements of a render context: what getPlacementsInRange
\* returns for the rows the pass asks for
InRange(st, scrollTop, viewportRows) ==
    Range(getPlacementsInRange(st, scrollTop, scrollTop + viewportRows))

\* The draws of a pass are in non-decreasing z-index order
LayersAscend(drawn) ==
    \A i, j \in DOMAIN drawn : i < j => drawn[i].zIndex <= drawn[j].zIndex

\* What a pass drew, against the in-range placements of the store: those of
\* its side of the text that have a bitmap, each once, lower layers first
PassDraws(st, call, drawn) ==
    LET inRange == InRange(st, call[2], call[3])
        mine == IF call[1] = "renderBelowText"
                THEN { p \in inRange : BelowText(p) }
                ELSE { p \in inRange : AboveText(p) }
    IN  /\ Range(drawn) = { p \in mine : p.image.bitmap }
        /\ Len(drawn) = Cardinality(Range(drawn))
        /\ LayersAscend(drawn)

\* Every in-range placement with a bitmap is drawn by exactly one pass
DrawnByOnePass(st, scrollTop, viewportRows, placements) ==
    \A p \in placements :
        p.image.bitmap =>
            (p \in Range(renderBelowText(st, scrollTop, viewportRows)))
                # (p \in Range(renderAboveText(st, scrollTop, viewportRows)))

\* C31: a render pass draws exactly the in-range placements of its side of
\* the text (zIndex < 0 below, zIndex >= 0 above) that have a bitmap, in
\* non-decreasing z-index order; every in-range placement with a bitmap is
\* drawn by exactly one of the two passes; the store is left as it was.
C31_RenderPasses ==
    [][IsSome(argument') =>
          /\ store' = store
          /\ PassDraws(store, Get(argument'), Get(returned'))
          /\ DrawnByOnePass(store, Get(argument')[2], Get(argument')[3],
                            InRange(store, Get(argument')[2], Get(argument')[3]))]_vars

\* The same with the placements whose z-index is a number
NumberedLayersDrawnOnce ==
    [][IsSome(argument') =>
          /\ store' = store
          /\ PassDraws(store, Get(argument'), Get(returned'))
          /\ DrawnByOnePass(store, Get(argument')[2], Get(argument')[3],
                            { p \in InRange(store, Get(argument')[2], Get(argument')[3]) :
                                  p.zIndex # NaN })]_vars

\* A pass has drawn two placements of different layers that were created
\* in the other order
LayersReordered ==
    /\ IsSome(returned)
    /\ Len(Get(returned)) = 2
    /\ Get(returned)[1].zIndex < Get(returned)[2].zIndex
    /\ \E i, j \in DOMAIN store.placements :
          i < j /\ store.placements[i] = Get(returned)[2]
                /\ store.placements[j] = Get(returned)[1]

\* The row span of placement p meets the visible rows of the context
MeetsViewport(p, scrollTop, viewportRows) ==
    /\ p.bufferRow <= scrollTop + viewportRows - 1
    /\ p.bufferRow + p.displayHeight - 1 >= scrollTop

\* C38: a render pass draws only placements whose row span intersects the
\* visible rows scrollTop .. scrollTop + viewportRows - 1; a placement that
\* starts at row scrollTop + viewportRows or below is not drawn.
C38_OnlyVisibleDrawn ==
    IsSome(returned) =>
        \A i \in DOMAIN Get(returned) :
            MeetsViewport(Get(returned)[i], Get(argument)[2], Get(argument)[3])

\* What is drawn outside the visible rows starts on the row just below them
DrawnAtMostOneRowBelow ==
    IsSome(returned) =>
        \A i \in DOMAIN Get(returned) :
            \/ MeetsViewport(Get(returned)[i], Get(argument)[2], Get(argument)[3])
            \/ Get(returned)[i].bufferRow = Get(argument)[2] + Get(argument)[3]

\* ------------------------------------------------------------------------
\* Properties of chunked transfers across commands
\* ------------------------------------------------------------------------

\* C33: whenever the manager's pending chunked-transfer image ID is
\* non-null, the store holds an open chunk buffer for that ID, also after
\* delete commands and clear() issued between the chunks of a transfer.
C33_PendingHasBuffer ==
    IsSome(manager.pendingChunkImageId) =>
        hasChunkBuffer(storage, Get(manager.pendingChunkImageId))

\* ------------------------------------------------------------------------
\* Store-only transfers: a manager that receives image 7 in chunks, the
\* first of them with a=t, next to frames without an ID
\* ------------------------------------------------------------------------

\* a=t,i=7,s=1,v=1,m=1: the first chunk of image 7, to be stored only
StoreOnlyFrame ==
    Frame(<<"a", "=", "t", ",", "i", "=", "7", ",", "s", "=", "1", ",", "v", "=", "1", ",",
            "m", "=", "1">>,
          <<"A", "Q", "I", "D">>)

\* m=1 with an empty payload: a continuation chunk that names no action
ContinuationFrame == Frame(<<"m", "=", "1">>, <<>>)

\* a=t,m=0: a final chunk that repeats the action
StoreOnlyFinalFrame == Frame(<<"a", "=", "t", ",", "m", "=", "0">>, <<"/", "w", "=", "=">>)

StoreOnlyChunks ==
    { <<"x">>,
      <<"c">> \o StoreOnlyFrame,
      StoreOnlyFrame \o ContinuationFrame,
      FinalFrame \o <<"d">>,
      StoreOnlyFinalFrame }

NextStoreOnly ==
    \/ \E chunk \in StoreOnlyChunks : Write(chunk)
    \/ Settle
    \/ Microtask

SpecStoreOnly == Init /\ [][NextStoreOnly]_vars

\* C32: a chunked transfer begun with a store-only transmit (a=t) never
\* creates a placement and never invokes the display callback when it
\* completes, also when its later chunks omit the action key.  Image 7 is
\* transmitted by such a transfer only: the counter of the ID-less frames
\* stays below 7.
C32_StoreOnlyTransferNotDisplayed ==
    /\ \A i \in DOMAIN shown : shown[i] # 7
    /\ \A i \in DOMAIN storage.placements : storage.placements[i].imageId # 7

\* With the action repeated on the final chunk the image is stored and not
\* displayed
StoredOnlyWhenActionRepeated ==
    [][\A c \in 1..Len(calls) :
          (/\ Stores(c)
           /\ Get(calls[c].decode).imageId = 7
           /\ Get(calls[c].decode).cmd.action = <<"t">>) =>
              /\ 7 \in DOMAIN storage'.images
              /\ shown' = shown
              /\ storage'.placements = storage.placements]_vars

\* ------------------------------------------------------------------------
\* Properties of the image ID counter
\* ------------------------------------------------------------------------

\* The command is a transmit that takes its image ID from the counter
TakesAutoId(cmd) ==
    /\ cmd.action \in {<<"t">>, <<"T">>}
    /\ ~IsSome(cmd.imageId)
    /\ ~IsSome(manager.pendingChunkImageId)

\* The counter is used and advanced: each automatic ID is above the last
AutoIdsIncrease ==
    [][/\ manager'.nextImageId >= manager.nextImageId
       /\ \A c \in 1..Len(calls') :
             \A k \in 1..Len(calls'[c].result.commands) :
                 (Executes(c, k) /\ TakesAutoId(calls'[c].result.commands[k].command)) =>
                     /\ manager'.nextImageId = manager.nextImageId + 1
                     /\ IsSome(calls'[c].decode) =>
                           Get(calls'[c].decode).imageId = manager.nextImageId]_vars

\* C34: automatic image IDs are strictly increasing, and the ID the counter
\* gives to a transmit without an explicit ID is never the ID of an image
\* already stored, so that such a transmit never replaces an image.
C34_AutoIdNeverCollides ==
    [][/\ manager'.nextImageId >= manager.nextImageId
       /\ \A c \in 1..Len(calls') :
             \A k \in 1..Len(calls'[c].result.commands) :
                 (Executes(c, k) /\ TakesAutoId(calls'[c].result.commands[k].command)) =>
                     /\ manager'.nextImageId = manager.nextImageId + 1
                     /\ ~hasImage(storage, manager.nextImageId)]_vars

\* ------------------------------------------------------------------------
\* Properties of replacing a stored image
\* ------------------------------------------------------------------------

\* The step is a storeImage call for an ID the store holds already
Replaces ==
    /\ Len(ops') = Len(ops) + 1
    /\ ops'[Len(ops')].op = "storeImage"
    /\ hasImage(store, ops'[Len(ops')].id)

\* C35: a storeImage call with an ID that is already stored (a replacement,
\* which does not raise the image count) never evicts an image with a
\* different ID.
C35_ReplacementEvictsNoOther ==
    [][Replaces => DOMAIN store'.images = DOMAIN store.images]_vars

\* A replacement made while the store is below both limits, counting the
\* new data, evicts nothing
ReplacementBelowLimitsEvictsNoOther ==
    [][(/\ Replaces
        /\ Cardinality(DOMAIN store.images) < MaxImages
        /\ store.memoryUsage + (ops'[Len(ops')].bytes) <= MaxCacheMemory) =>
            DOMAIN store'.images = DOMAIN store.images]_vars

\* ------------------------------------------------------------------------
\* Properties of the parser across calls
\* ------------------------------------------------------------------------

\* The stream was one text divided in two, and both parts have been fed
FedInTwoParts ==
    /\ stream = <<>>
    /\ Len(fed) = 2
    /\ fed[1].chunk.segs = <<>>
    /\ fed[1].chunk.text \o fed[2].chunk.text = fed[1].chunk.whole

\* The two calls together gave what one call on the whole text gives
AsInOneCall ==
    /\ CommandsFed(1, 2) = CommandsOf(extract(<<>>, fed[1].chunk.whole))
    /\ CleanedFed(1, 2) = extract(<<>>, fed[1].chunk.whole).cleanedData

\* C36: extract is invariant under chunk splitting: for every input and
\* every split position, also inside the start marker, inside the end
\* marker or inside a tmux wrapper, the two parts fed in successive calls
\* yield the commands and the concatenated cleanedData of one call on the
\* whole input.
C36_SplitInvariant == FedInTwoParts => AsInOneCall

\* The same for the inputs without tmux wrappers that are split elsewhere
\* than inside a start marker: the first part does not end with ESC or
\* with ESC _
SplitOutsideStartMarker ==
    (/\ FedInTwoParts
     /\ ~Includes(fed[1].chunk.whole, TMUX_PASSTHROUGH_START)
     /\ fed[1].chunk.text[Len(fed[1].chunk.text)] # ESC
     /\ \/ Len(fed[1].chunk.text) < 2
        \/ SubstringFrom(fed[1].chunk.text, Len(fed[1].chunk.text) - 2) # <<ESC, "_">>)
        => AsInOneCall

\* ------------------------------------------------------------------------
\* Render loop: a manager whose host polls checkNeedsRender between the
\* writes, as Terminal.startRenderLoop does on every animation frame
\* ------------------------------------------------------------------------

\* GraphicsManager.checkNeedsRender: returns the flag and clears it
checkNeedsRender(m) == [m EXCEPT !.needsRender = FALSE]

\* An animation frame: it runs when no microtask is left to run
CheckNeedsRender ==
    /\ microQ = <<>>
    /\ manager' = checkNeedsRender(manager)
    /\ UNCHANGED <<wired, pendingData, storage, shown, responses, calls, trace, microQ,
                   parserVars, storeVars, codecVars, pureVars>>

RenderLoopChunks ==
    { <<"x">>,
      <<"a">> \o PngFrame \o <<"b">>,
      RawFrame,
      <<"p">> \o PutFrame,
      DeleteImageFrame \o <<"s">> }

NextRenderLoop ==
    \/ \E chunk \in RenderLoopChunks : Write(chunk)
    \/ CheckNeedsRender
    \/ Settle
    \/ Microtask

SpecRenderLoop == Init /\ [][NextRenderLoop]_vars

\* C37: whenever a command changes the set of placements (creation,
\* deletion, or the removal that follows the replacement or the eviction of
\* an image) the flag is left set, so that the next checkNeedsRender()
\* returns true; checkNeedsRender clears the flag and nothing else.
C37_PlacementChangeFlagged ==
    [][/\ Range(storage'.placements) # Range(storage.placements) => manager'.needsRender
       /\ (manager.needsRender /\ ~manager'.needsRender) =>
             /\ storage' = storage
             /\ manager' = [manager EXCEPT !.needsRender = FALSE]]_vars

\* A step that adds a placement, and a step that runs a delete command,
\* leave the flag set
PlacementCommandsFlagged ==
    [][/\ ~(Range(storage'.placements) \subseteq Range(storage.placements)) =>
             manager'.needsRender
       /\ \A c \in 1..Len(calls') :
             \A k \in 1..Len(calls'[c].result.commands) :
                 (Executes(c, k) /\ calls'[c].result.commands[k].command.action = <<"d">>) =>
                     manager'.needsRender]_vars

\* The buffer is empty, or begins with the start marker and holds no end
\* marker
OpenFrame(pending) ==
    \/ pending = <<>>
    \/ /\ Substring(pending, 0, Len(APC_START)) = APC_START
       /\ ~Includes(pending, ST)

\* C39: after every extract call the parser's pending buffer is either
\* empty or begins with the start marker ESC _ G and contains no end marker
\* ESC \; hasPendingData() is true exactly when the buffer is non-empty.
C39_PendingIsOpenFrame ==
    /\ OpenFrame(parserPending)
    /\ hasPendingData(parserPending) <=> parserPending # <<>>
    /\ \A n \in 1..Len(fed) :
          /\ OpenFrame(fed[n].result.pendingData)
          /\ hasPendingData(fed[n].result.pendingData) <=> fed[n].result.pendingData # <<>>

\* A call on text, the start of a frame and part of its control data left
\* the frame pending and returned the text; the next call, on the rest of
\* the frame without its end marker, left more pending
C39_Witness ==
    /\ Len(fed) = 2
    /\ fed[1].result.cleanedData # <<>>
    /\ hasPendingData(fed[1].result.pendingData)
    /\ Len(fed[2].result.pendingData) > Len(fed[1].result.pendingData)
    /\ parserPending = fed[2].result.pendingData
    /\ hasPendingData(parserPending)

\* ------------------------------------------------------------------------
\* Properties of the row index
\* ------------------------------------------------------------------------

\* C40: after any sequence of setPlacement, removePlacement, removeImage
\* and delete operations the row index agrees with the placement map: a key
\* is in the set of row r iff a placement with that key exists and starts
\* at bufferRow r, and the index holds no empty row set.
C40_RowIndexAgrees ==
    /\ RowIndexed(store)
    /\ \A row \in DOMAIN store.placementsByRow : store.placementsByRow[row] # {}
    /\ \A row \in DOMAIN store.placementsByRow :
          \A key \in store.placementsByRow[row] :
              /\ key \in PlacementKeys(store)
              /\ getPlacement(store, key).bufferRow = row

\* Placements were set in rows 0 and 1, deleteRow(1) emptied the set of
\* row 1, and removeImage(1) then removed the placement of row 0 with the
\* image: the index is empty
C40_Witness ==
    /\ Len(ops) = 4
    /\ ops[1].op = "setPlacement" /\ ops[1].arg.bufferRow = 0
    /\ ops[2].op = "setPlacement" /\ ops[2].arg.bufferRow = 1
    /\ ops[3].op = "deleteRow" /\ ops[3].arg = 1
    /\ ops[4].op = "removeImage" /\ ops[4].result
    /\ store.placements = <<>>
    /\ store.placementsByRow = EmptyMap

====
